---------------------------- MODULE Spec2Model ----------------------------
(***************************************************************************)
(* A model of jpoz/flexjson: the tolerant batch pipeline of json.go        *)
(* (Lexer, Parser, ParsePartialJSON, ParsePartialJSONObject) and the       *)
(* character-at-a-time StreamingParser of stream.go.                       *)
(*                                                                         *)
(* Four specifications share the definitions:                              *)
(*   SpecBatch  ParsePartialJSONObject on every prefix of a document       *)
(*   SpecAny    ParsePartialJSONObject on texts that are no such prefix:   *)
(*              the empty input, top-level values, stray tokens            *)
(*   Spec       a decoder session under any calls of ProcessChar,          *)
(*              ProcessString and Reset                                    *)
(*   SpecEquiv  both pipelines on one complete document                    *)
(*                                                                         *)
(* Text is a sequence of bytes, each a string.  Go values are tagged       *)
(* records; every kind has its own field names, so records of different    *)
(* kinds are never compared field by field:                                *)
(*   nil            [t |-> "null"]                                         *)
(*   bool           [t |-> "bool",  b |-> BOOLEAN]                         *)
(*   int64          [t |-> "int",   neg |-> BOOLEAN, mag |-> digits]       *)
(*   float64        [t |-> "float", fneg |-> BOOLEAN, fdig |-> digits,     *)
(*                                  fexp |-> Int]                          *)
(*   string         [t |-> "str",   s |-> text]                            *)
(*   []interface{}  [t |-> "arr",   e |-> sequence of values]              *)
(*   map[string]any [t |-> "obj",   m |-> function from keys to values]    *)
(* The decoder's containers live in a heap and are referred to by address  *)
(* (see the StreamingParser section).                                      *)
(***************************************************************************)
EXTENDS Integers, Sequences, FiniteSets, TLC

(***************************************************************************)
(* Characters                                                              *)
(***************************************************************************)
QUOTE == "\""

BACKSLASH == "\\"

Digits == {"0", "1", "2", "3", "4", "5", "6", "7", "8", "9"}

Lower == {"a", "b", "c", "d", "e", "f", "g", "h", "i", "j", "k", "l", "m",
          "n", "o", "p", "q", "r", "s", "t", "u", "v", "w", "x", "y", "z"}

Upper == {"A", "B", "C", "D", "E", "F", "G", "H", "I", "J", "K", "L", "M",
          "N", "O", "P", "Q", "R", "S", "T", "U", "V", "W", "X", "Y", "Z"}

Whitespace == {" ", "\t", "\r", "\n"}

isDigit(c) == c \in Digits

isAlpha(c) == c \in Lower \/ c \in Upper \/ c = "_"

isAlphaNumeric(c) == isAlpha(c) \/ isDigit(c)

DigitVal(c) ==
    CASE c = "0" -> 0 [] c = "1" -> 1 [] c = "2" -> 2 [] c = "3" -> 3
      [] c = "4" -> 4 [] c = "5" -> 5 [] c = "6" -> 6 [] c = "7" -> 7
      [] c = "8" -> 8 [] c = "9" -> 9

(***************************************************************************)
(* Text is a sequence of bytes.  An ASCII byte is the one-character string *)
(* of its character; the two bytes of U+00E9 are written "C3" and "A9",    *)
(* the three of U+FFFD "EF", "BF" and "BD".  A character handed to         *)
(* ProcessChar is a Go string of one rune: an ASCII character is itself,   *)
(* U+00E9 is "C3A9" and U+FFFD is "EFBFBD".                                *)
(***************************************************************************)
EAcute == "C3A9"

RuneError == "EFBFBD"

\* the bytes of the string c
Utf8(c) ==
    IF c = EAcute THEN <<"C3", "A9">>
    ELSE IF c = RuneError THEN <<"EF", "BF", "BD">>
    ELSE <<c>>

NonASCII == {"C3", "A9", "EF", "BF", "BD"}

\* the first rune of a non-empty byte string, as a string, and its width; a
\* byte that starts no valid encoding is U+FFFD, one byte wide
decodeRune(bytes) ==
    IF Len(bytes) >= 2 /\ bytes[1] = "C3" /\ bytes[2] = "A9"
    THEN [c |-> EAcute, width |-> 2]
    ELSE IF Len(bytes) >= 3 /\ bytes[1] = "EF" /\ bytes[2] = "BF" /\ bytes[3] = "BD"
    THEN [c |-> RuneError, width |-> 3]
    ELSE IF Head(bytes) \in NonASCII THEN [c |-> RuneError, width |-> 1]
    ELSE [c |-> Head(bytes), width |-> 1]

\* for _, c := range chunk ... string(c): the runes of a byte string
RECURSIVE Runes(_)
Runes(bytes) ==
    IF bytes = <<>> THEN <<>>
    ELSE <<decodeRune(bytes).c>>
         \o Runes(SubSeq(bytes, decodeRune(bytes).width + 1, Len(bytes)))

(***************************************************************************)
(* Digit strings: magnitudes beyond 32-bit integers (the int64 and float64 *)
(* ranges) are compared as digit sequences.                                *)
(***************************************************************************)
RECURSIVE StripLeadingZeros(_)
StripLeadingZeros(d) ==
    IF d # <<>> /\ Head(d) = "0" THEN StripLeadingZeros(Tail(d)) ELSE d

RECURSIVE StripTrailingZeros(_)
StripTrailingZeros(d) ==
    IF d # <<>> /\ d[Len(d)] = "0"
    THEN StripTrailingZeros(SubSeq(d, 1, Len(d) - 1))
    ELSE d

RECURSIVE TrailingZeros(_)
TrailingZeros(d) ==
    IF d # <<>> /\ d[Len(d)] = "0"
    THEN 1 + TrailingZeros(SubSeq(d, 1, Len(d) - 1))
    ELSE 0

AllDigits(s) == \A i \in 1..Len(s) : isDigit(s[i])

\* lexicographic d1 > d2 on digit sequences, the shorter padded with zeros
RECURSIVE LexGreater(_, _)
LexGreater(d1, d2) ==
    IF d1 = <<>> THEN FALSE
    ELSE IF d2 = <<>> THEN \E i \in 1..Len(d1) : d1[i] # "0"
    ELSE IF DigitVal(Head(d1)) # DigitVal(Head(d2))
         THEN DigitVal(Head(d1)) > DigitVal(Head(d2))
         ELSE LexGreater(Tail(d1), Tail(d2))

\* m1 > m2 for magnitudes without leading zeros
MagGreater(m1, m2) ==
    IF Len(m1) # Len(m2) THEN Len(m1) > Len(m2) ELSE LexGreater(m1, m2)

\* 2^63 - 1 and 2^63
MaxInt64Mag == <<"9","2","2","3","3","7","2","0","3","6","8","5","4","7","7","5","8","0","7">>

MinInt64Mag == <<"9","2","2","3","3","7","2","0","3","6","8","5","4","7","7","5","8","0","8">>

(***************************************************************************)
(* strconv.ParseInt(s, 10, 64): an optional sign, then one or more decimal *)
(* digits, the value within [-2^63, 2^63-1].  ok = FALSE is err # nil.     *)
(***************************************************************************)
NoNumber == [ok |-> FALSE]

ParseInt(s) ==
    IF s = <<>> THEN NoNumber
    ELSE LET signed == Head(s) \in {"+", "-"}
             neg    == Head(s) = "-"
             body   == IF signed THEN Tail(s) ELSE s
             mag    == StripLeadingZeros(body)
         IN  IF body = <<>> \/ ~AllDigits(body) THEN NoNumber
             ELSE IF MagGreater(mag, IF neg THEN MinInt64Mag ELSE MaxInt64Mag)
                  THEN NoNumber
             ELSE [ok |-> TRUE,
                   v  |-> [t |-> "int", neg |-> neg /\ mag # <<>>,
                           mag |-> IF mag = <<>> THEN <<"0">> ELSE mag]]

(***************************************************************************)
(* strconv.ParseFloat(s, 64) on decimal text: an optional sign, digits     *)
(* with at most one '.', at least one digit, then an optional exponent     *)
(* (e or E, an optional sign, at least one digit); the whole text must be  *)
(* consumed.  The value is kept as a normalised decimal fdig * 10^fexp     *)
(* (fdig without leading or trailing zeros).  A magnitude that rounds      *)
(* beyond the largest float64 is ErrRange (ok = FALSE); one too small for  *)
(* a float64 is zero.  The infinity, NaN and hexadecimal spellings need    *)
(* letters no number text of either pipeline can hold.                     *)
(***************************************************************************)
RECURSIVE SkipDigits(_, _)
SkipDigits(s, i) ==
    IF i <= Len(s) /\ isDigit(s[i]) THEN SkipDigits(s, i + 1) ELSE i

\* the exponent accumulation of readFloat: e = e*10 + digit while e < 10000
RECURSIVE ExpValue(_, _)
ExpValue(d, e) ==
    IF d = <<>> THEN e
    ELSE ExpValue(Tail(d), IF e < 10000 THEN e * 10 + DigitVal(Head(d)) ELSE e)

\* the first digits of 2^1024 - 2^970, the least magnitude that rounds to +Inf
F64OverflowDigits == <<"1","7","9","7","6","9","3","1","3","4","8","6","2","3","1","5","8","0","7","9","3">>

\* decimal point position past which every magnitude overflows
F64OverflowPoint == 309

\* decimal point position below which every magnitude is zero
F64ZeroPoint == -323

ParseFloat(s) ==
    IF s = <<>> THEN NoNumber
    ELSE LET signed == Head(s) \in {"+", "-"}
             neg    == Head(s) = "-"
             i0     == IF signed THEN 2 ELSE 1
             j1     == SkipDigits(s, i0)
             sawdot == j1 <= Len(s) /\ s[j1] = "."
             j2     == IF sawdot THEN SkipDigits(s, j1 + 1) ELSE j1
             ipart  == SubSeq(s, i0, j1 - 1)
             fpart  == IF sawdot THEN SubSeq(s, j1 + 1, j2 - 1) ELSE <<>>
             hasexp == j2 <= Len(s) /\ s[j2] \in {"e", "E"}
             k0     == j2 + 1
             esgn   == hasexp /\ k0 <= Len(s) /\ s[k0] \in {"+", "-"}
             eneg   == esgn /\ s[k0] = "-"
             k1     == IF esgn THEN k0 + 1 ELSE k0
             k2     == SkipDigits(s, k1)
             edig   == SubSeq(s, k1, k2 - 1)
             e      == IF hasexp
                       THEN (IF eneg THEN -1 ELSE 1) * ExpValue(edig, 0)
                       ELSE 0
             last   == IF hasexp THEN k2 ELSE j2
             all    == StripLeadingZeros(ipart \o fpart)
             dig    == StripTrailingZeros(all)
             exp    == e - Len(fpart) + TrailingZeros(all)
             dp     == exp + Len(dig)
         IN  IF ipart = <<>> /\ fpart = <<>> THEN NoNumber
             ELSE IF hasexp /\ edig = <<>> THEN NoNumber
             ELSE IF last # Len(s) + 1 THEN NoNumber
             ELSE IF dig = <<>> \/ dp < F64ZeroPoint
                  THEN [ok |-> TRUE,
                        v  |-> [t |-> "float", fneg |-> neg, fdig |-> <<>>, fexp |-> 0]]
             ELSE IF dp > F64OverflowPoint
                     \/ (dp = F64OverflowPoint /\ LexGreater(dig, F64OverflowDigits))
                  THEN NoNumber
             ELSE [ok |-> TRUE,
                   v  |-> [t |-> "float", fneg |-> neg, fdig |-> dig, fexp |-> exp]]

(***************************************************************************)
(* Values                                                                  *)
(***************************************************************************)
Null == [t |-> "null"]

Bool(b) == [t |-> "bool", b |-> b]

Str(s) == [t |-> "str", s |-> s]

Arr(e) == [t |-> "arr", e |-> e]

Obj(m) == [t |-> "obj", m |-> m]

EmptyMap == [k \in {} |-> Null]

\* m[key] = value of a Go map
MapSet(m, key, value) ==
    [k \in DOMAIN m \cup {key} |-> IF k = key THEN value ELSE m[k]]

(***************************************************************************)
(* Lexer (json.go)                                                         *)
(***************************************************************************)
Token(type, value) == [Type |-> type, Value |-> value]

\* a last token that is not of the end-of-input kind
EOFTokenOfNullKind == Token("Null", <<>>)

EOFToken == Token("EOF", <<>>)

\* Lexer.addToken: the one-character token at pos (0-based), pos++
addToken(inp, p, toks, type) ==
    [pos |-> p + 1, tokens |-> Append(toks, Token(type, <<inp[p + 1]>>))]

\* the loop of scanString from 0-based position p: stops at a '"' or at the end;
\* a backslash that is not the last byte also skips the byte after it
RECURSIVE stringEnd(_, _)
stringEnd(inp, p) ==
    IF p < Len(inp) /\ inp[p + 1] # QUOTE
    THEN stringEnd(inp, IF inp[p + 1] = BACKSLASH /\ p + 1 < Len(inp)
                        THEN p + 2 ELSE p + 1)
    ELSE p

\* scanString appending its token only when the closing quote was found
scanStringDropsTruncated(inp, p, toks) ==
    LET startPos == p + 1
        q        == stringEnd(inp, startPos)
    IN  [pos    |-> IF q < Len(inp) THEN q + 1 ELSE q,
         tokens |-> IF q < Len(inp)
                    THEN Append(toks, Token("String", SubSeq(inp, startPos + 1, q)))
                    ELSE toks]

\* Lexer.scanString: the token is appended whether or not a closing quote was found
scanString(inp, p, toks) ==
    LET startPos == p + 1
        q        == stringEnd(inp, startPos)
    IN  [pos    |-> IF q < Len(inp) THEN q + 1 ELSE q,
         tokens |-> Append(toks, Token("String", SubSeq(inp, startPos + 1, q)))]

\* Lexer.scanNumber: greedy '-'? digits ('.' digits)? ([eE] [+-]? digits)?
scanNumber(inp, p, toks) ==
    LET i0 == IF inp[p + 1] = "-" THEN p + 2 ELSE p + 1
        i1 == SkipDigits(inp, i0)
        i2 == IF i1 <= Len(inp) /\ inp[i1] = "." THEN SkipDigits(inp, i1 + 1) ELSE i1
        i3 == IF i2 <= Len(inp) /\ inp[i2] \in {"e", "E"}
              THEN SkipDigits(inp, IF i2 + 1 <= Len(inp) /\ inp[i2 + 1] \in {"+", "-"}
                                   THEN i2 + 2 ELSE i2 + 1)
              ELSE i2
    IN  [pos    |-> i3 - 1,
         tokens |-> Append(toks, Token("Number", SubSeq(inp, p + 1, i3 - 1)))]

RECURSIVE SkipAlphaNumeric(_, _)
SkipAlphaNumeric(s, i) ==
    IF i <= Len(s) /\ isAlphaNumeric(s[i]) THEN SkipAlphaNumeric(s, i + 1) ELSE i

\* Lexer.scanIdentifier: only true, false and null give a token
scanIdentifier(inp, p, toks) ==
    LET i1    == SkipAlphaNumeric(inp, p + 1)
        value == SubSeq(inp, p + 1, i1 - 1)
    IN  [pos    |-> i1 - 1,
         tokens |-> CASE value = <<"t", "r", "u", "e">>      -> Append(toks, Token("True", value))
                      [] value = <<"f", "a", "l", "s", "e">> -> Append(toks, Token("False", value))
                      [] value = <<"n", "u", "l", "l">>      -> Append(toks, Token("Null", value))
                      [] OTHER                               -> toks]

\* scanToken leaving an unknown character unread
scanTokenKeepsUnknown(inp, p, toks) ==
    LET c == inp[p + 1]
    IN  CASE c = "{"   -> addToken(inp, p, toks, "LeftBrace")
          [] c = "}"   -> addToken(inp, p, toks, "RightBrace")
          [] c = "["   -> addToken(inp, p, toks, "LeftBracket")
          [] c = "]"   -> addToken(inp, p, toks, "RightBracket")
          [] c = ":"   -> addToken(inp, p, toks, "Colon")
          [] c = ","   -> addToken(inp, p, toks, "Comma")
          [] c = QUOTE -> scanString(inp, p, toks)
          [] c \in Whitespace -> [pos |-> p + 1, tokens |-> toks]
          [] OTHER ->
               IF isDigit(c) \/ c = "-" THEN scanNumber(inp, p, toks)
               ELSE IF isAlpha(c) THEN scanIdentifier(inp, p, toks)
               ELSE [pos |-> p, tokens |-> toks]

\* Lexer.scanToken at 0-based position p < Len(inp)
scanToken(inp, p, toks) ==
    LET c == inp[p + 1]
    IN  CASE c = "{"   -> addToken(inp, p, toks, "LeftBrace")
          [] c = "}"   -> addToken(inp, p, toks, "RightBrace")
          [] c = "["   -> addToken(inp, p, toks, "LeftBracket")
          [] c = "]"   -> addToken(inp, p, toks, "RightBracket")
          [] c = ":"   -> addToken(inp, p, toks, "Colon")
          [] c = ","   -> addToken(inp, p, toks, "Comma")
          [] c = QUOTE -> scanString(inp, p, toks)
          [] c \in Whitespace -> [pos |-> p + 1, tokens |-> toks]
          [] OTHER ->
               IF isDigit(c) \/ c = "-" THEN scanNumber(inp, p, toks)
               ELSE IF isAlpha(c) THEN scanIdentifier(inp, p, toks)
               ELSE [pos |-> p + 1, tokens |-> toks]

(***************************************************************************)
(* Parser helpers (json.go): current is the 0-based cursor                 *)
(***************************************************************************)
isAtEnd(toks, cur) == cur >= Len(toks) \/ toks[cur + 1].Type = "EOF"

peek(toks, cur) == toks[cur + 1]

advance(toks, cur) == IF ~isAtEnd(toks, cur) THEN cur + 1 ELSE cur

\* check without its end-of-input case
checkNoEOF(toks, cur, type) ==
    IF isAtEnd(toks, cur) THEN FALSE ELSE peek(toks, cur).Type = type

check(toks, cur, type) ==
    IF isAtEnd(toks, cur) THEN type = "EOF" ELSE peek(toks, cur).Type = type

\* a (value, error) pair; err = "" is a nil error
Ret(val, err) == [val |-> val, err |-> err]

\* the nil map[string]any and the nil []interface{}
NilMap == [t |-> "nilmap"]

NilSlice == [t |-> "nilslice"]

\* the number branch of Parser.parseValue: ParseInt first, then ParseFloat
parseNumberToken(text) ==
    IF ParseInt(text).ok THEN Ret(ParseInt(text).v, "")
    ELSE IF ParseFloat(text).ok THEN Ret(ParseFloat(text).v, "")
    ELSE Ret(Null, "invalid number")

\* the dangling key left out of the object
setNilSkipped(obj, key) == obj

\* obj[key] = nil of parseObject (json.go 311, 322, 331)
setNil(obj, key) == MapSet(obj, key, Null)

\* the value put in front of the elements
prependValue(arr, value) == <<value>> \o arr

\* arr = append(arr, value) of parseArray (json.go 395)
appendValue(arr, value) == Append(arr, value)

\* a frame that forgets the pairs of its object
ObjFrameLost(m, key) == [kind |-> "obj", m |-> EmptyMap, e |-> <<>>, key |-> key]

\* a frame of parseObject or parseArray that is waiting for a value
ObjFrame(m, key) == [kind |-> "obj", m |-> m, e |-> <<>>, key |-> key]

ArrFrame(e) == [kind |-> "arr", m |-> EmptyMap, e |-> e, key |-> <<>>]

(***************************************************************************)
(* StreamingParser (stream.go).                                            *)
(*                                                                         *)
(* Containers live in a heap, a sequence indexed by address:               *)
(*   [k |-> "map", m |-> function]      a Go map                           *)
(*   [k |-> "slice", e |-> sequence]    the []interface{} variable that a  *)
(*                                      *[]interface{} points to           *)
(* Address 1 is the caller's output map.  A value that refers to a         *)
(* container is one of                                                     *)
(*   [t |-> "mapptr", a |-> addr]    *map[string]any (sp.output)           *)
(*   [t |-> "mapref", a |-> addr]    map[string]any                        *)
(*   [t |-> "sliceptr", a |-> addr]  *[]interface{}                        *)
(* and a bare []interface{} is the value [t |-> "arr", e |-> ...].         *)
(* A session state is the record of the StreamingParser's fields; paths    *)
(* is never read or written after construction and debug only gates        *)
(* logging, so neither is kept.                                            *)
(* Where an operator uses a computed value more than once, the value is    *)
(* bound by a quantifier over its singleton set (x \in {e}), so that it    *)
(* is computed once.                                                       *)
(***************************************************************************)
RootAddr == 1

MapCell(m) == [k |-> "map", m |-> m]

SliceCell(e) == [k |-> "slice", e |-> e]

MapPtr(a) == [t |-> "mapptr", a |-> a]

MapRef(a) == [t |-> "mapref", a |-> a]

SlicePtr(a) == [t |-> "sliceptr", a |-> a]

\* the argument of NewStreamingParser: nil or a pointer to the caller's map,
\* given here by what the map holds at the call
NilOutput == [t |-> "nilptr"]

CallerOutputs ==
    {NilOutput, Obj(EmptyMap),
     Obj(MapSet(MapSet(EmptyMap, <<"o", "l", "d">>, Bool(TRUE)), <<"k">>, Null))}

\* for k := range m { delete(m, k) }
Cleared(m) == [k \in DOMAIN m \ DOMAIN m |-> m[k]]

\* NewStreamingParser: the session bound to the emptied output map, which is
\* the caller's map, or a new one for nil, and stands at RootAddr
NewStreamingParser(output) ==
    [output       |-> MapPtr(RootAddr),
     heap         |-> <<MapCell(Cleared(IF output = NilOutput THEN EmptyMap ELSE output.m))>>,
     stack        |-> <<MapPtr(RootAddr)>>,
     keys         |-> <<>>,
     buffer       |-> <<>>,
     isEscaping   |-> FALSE,
     inString     |-> FALSE,
     expectingKey |-> TRUE,
     expectColon  |-> FALSE,
     lastChar     |-> ""]

\* a Reset that leaves the key stack as it was
ResetKeepsKeys(sp) ==
    [output       |-> sp.output,
     heap         |-> <<MapCell(Cleared(sp.heap[sp.output.a].m))>>,
     stack        |-> <<sp.output>>,
     keys         |-> sp.keys,
     buffer       |-> <<>>,
     isEscaping   |-> FALSE,
     inString     |-> FALSE,
     expectingKey |-> TRUE,
     expectColon  |-> FALSE,
     lastChar     |-> ""]

\* a Reset that binds the session to a new empty map and leaves the old one
\* as it was
ResetNewMap(sp) ==
    [output       |-> MapPtr(RootAddr + 1),
     heap         |-> <<sp.heap[sp.output.a], MapCell(EmptyMap)>>,
     stack        |-> <<MapPtr(RootAddr + 1)>>,
     keys         |-> <<>>,
     buffer       |-> <<>>,
     isEscaping   |-> FALSE,
     inString     |-> FALSE,
     expectingKey |-> TRUE,
     expectColon  |-> FALSE,
     lastChar     |-> ""]

\* StreamingParser.Reset: the output map is emptied in place and every field set
\* again; containers of the earlier document are no longer referred to by the
\* session and are dropped from the heap
Reset(sp) ==
    [output       |-> sp.output,
     heap         |-> <<MapCell(Cleared(sp.heap[sp.output.a].m))>>,
     stack        |-> <<sp.output>>,
     keys         |-> <<>>,
     buffer       |-> <<>>,
     isEscaping   |-> FALSE,
     inString     |-> FALSE,
     expectingKey |-> TRUE,
     expectColon  |-> FALSE,
     lastChar     |-> ""]

\* a parseNumber that tries ParseFloat first
parseNumberFloatFirst(buffer) ==
    CHOOSE r \in
        {IF f.ok THEN Ret(f.v, "")
         ELSE CHOOSE ri \in {IF i.ok THEN Ret(i.v, "") ELSE Ret(Null, "invalid number") :
                             i \in {ParseInt(buffer)}} : TRUE :
         f \in {ParseFloat(buffer)}} : TRUE

\* StreamingParser.parseNumber on the buffer: ParseInt first, then ParseFloat
parseNumber(buffer) ==
    CHOOSE r \in
        {IF i.ok THEN Ret(i.v, "")
         ELSE CHOOSE rf \in {IF f.ok THEN Ret(f.v, "") ELSE Ret(Null, "invalid number") :
                             f \in {ParseFloat(buffer)}} : TRUE :
         i \in {ParseInt(buffer)}} : TRUE

\* StreamingParser.getCurrentContainer
getCurrentContainer(sp) ==
    IF Len(sp.stack) = 0 THEN [ok |-> FALSE] ELSE [ok |-> TRUE, c |-> sp.stack[Len(sp.stack)]]

\* an addValue whose append to a slice moves the slice to a new place that
\* only the stack is told of
addValueStale(sp, value) ==
    IF Len(sp.stack) = 0 THEN sp
    ELSE LET current == sp.stack[Len(sp.stack)]
             nk      == Len(sp.keys)
         IN  CASE current.t \in {"mapptr", "mapref"} ->
                    IF nk > 0
                    THEN [sp EXCEPT !.heap[current.a] =
                              MapCell(MapSet(@.m, sp.keys[nk], value))]
                    ELSE sp
               [] current.t = "sliceptr" ->
                    [sp EXCEPT !.heap = Append(@, SliceCell(Append(@[current.a].e, value))),
                               !.stack[Len(sp.stack)] = SlicePtr(Len(sp.heap) + 1)]
               [] OTHER -> sp

\* StreamingParser.addValue
addValue(sp, value) ==
    IF Len(sp.stack) = 0 THEN sp
    ELSE LET current == sp.stack[Len(sp.stack)]
             nk      == Len(sp.keys)
         IN  CASE current.t \in {"mapptr", "mapref"} ->
                    IF nk > 0
                    THEN [sp EXCEPT !.heap[current.a] =
                              MapCell(MapSet(@.m, sp.keys[nk], value))]
                    ELSE sp
               [] current.t = "sliceptr" ->
                    [sp EXCEPT !.heap[current.a] = SliceCell(Append(@.e, value))]
               [] current.t = "arr" ->
                    LET newSlice == Arr(Append(current.e, value))
                        parent   == sp.stack[Len(sp.stack) - 1]
                        relinked ==
                            IF Len(sp.stack) >= 2
                               /\ parent.t \in {"mapptr", "mapref"} /\ nk >= 2
                            THEN [sp EXCEPT !.heap[parent.a] =
                                      MapCell(MapSet(@.m, sp.keys[nk - 1], newSlice))]
                            ELSE sp
                    IN  [relinked EXCEPT !.stack[Len(sp.stack)] = newSlice]
               [] OTHER -> sp

\* a call's outcome: the session after it and the error returned ("" is nil)
Outcome(sp, err) == [sp |-> sp, err |-> err]

Pop(seq) == SubSeq(seq, 1, Len(seq) - 1)

\* the number finalisation that opens ProcessChar (stream.go 67-74)
finalizeNumber(sp, c) ==
    IF c \in {",", "}", "]"} /\ sp.buffer # <<>>
    THEN CHOOSE s \in
             {IF r.err = "" THEN [addValue(sp, r.val) EXCEPT !.buffer = <<>>] ELSE sp :
              r \in {parseNumber(sp.buffer)}} : TRUE
    ELSE sp

\* ProcessChar in string mode (stream.go 77-121)
processInString(sp, c) ==
    IF sp.isEscaping
    THEN [sp EXCEPT !.buffer = @ \o Utf8(c), !.isEscaping = FALSE, !.lastChar = c]
    ELSE IF c = BACKSLASH
    THEN [sp EXCEPT !.isEscaping = TRUE, !.lastChar = c]
    ELSE IF c = QUOTE
    THEN IF sp.expectingKey
         THEN [sp EXCEPT !.inString = FALSE, !.keys = Append(@, sp.buffer),
                         !.expectingKey = FALSE, !.expectColon = TRUE,
                         !.buffer = <<>>, !.lastChar = c]
         ELSE [addValue([sp EXCEPT !.inString = FALSE], Str(sp.buffer))
                   EXCEPT !.buffer = <<>>, !.lastChar = c]
    ELSE [sp EXCEPT !.buffer = @ \o Utf8(c), !.lastChar = c]

\* case "{" (stream.go 131-153)
processLeftBrace(sp, c) ==
    IF Len(sp.stack) = 1 /\ Len(sp.keys) = 0
    THEN [sp EXCEPT !.expectingKey = TRUE, !.lastChar = c]
    ELSE LET a     == Len(sp.heap) + 1
             added == addValue([sp EXCEPT !.heap = Append(@, MapCell(EmptyMap))], MapRef(a))
         IN  [added EXCEPT !.stack = Append(@, MapRef(a)),
                           !.expectingKey = TRUE, !.lastChar = c]

\* a case "}" / "]" that pops whatever the stack holds
processCloseUnguarded(sp, c) ==
    [sp EXCEPT !.stack = Pop(@), !.keys = IF Len(@) > 0 THEN Pop(@) ELSE @,
               !.expectingKey = FALSE, !.expectColon = FALSE, !.lastChar = c]

\* case "}" and case "]" (stream.go 155-169, 185-199)
processClose(sp, c) ==
    LET popped == IF Len(sp.stack) > 1
                  THEN [sp EXCEPT !.stack = Pop(@),
                                  !.keys = IF Len(@) > 0 THEN Pop(@) ELSE @]
                  ELSE sp
    IN  [popped EXCEPT !.expectingKey = FALSE, !.expectColon = FALSE, !.lastChar = c]

\* case "[" pushing the sequence itself instead of a handle to it
processLeftBracketBareSlice(sp, c) ==
    LET added == addValue(sp, Arr(<<>>))
    IN  [added EXCEPT !.stack = Append(@, Arr(<<>>)),
                      !.expectingKey = FALSE, !.lastChar = c]

\* case "[" (stream.go 171-183)
processLeftBracket(sp, c) ==
    LET a     == Len(sp.heap) + 1
        added == addValue([sp EXCEPT !.heap = Append(@, SliceCell(<<>>))], SlicePtr(a))
    IN  [added EXCEPT !.stack = Append(@, SlicePtr(a)),
                      !.expectingKey = FALSE, !.lastChar = c]

\* a case "," that expects a key whatever the current container is
processCommaExpectsKey(sp, c) ==
    [sp EXCEPT !.expectingKey = TRUE, !.lastChar = c]

\* case "," (stream.go 221-238)
processComma(sp, c) ==
    LET cur == getCurrentContainer(sp)
        set == IF ~cur.ok THEN sp
               ELSE IF cur.c.t \in {"mapptr", "mapref"} THEN [sp EXCEPT !.expectingKey = TRUE]
               ELSE IF cur.c.t = "sliceptr" THEN [sp EXCEPT !.expectingKey = FALSE]
               ELSE sp
    IN  [set EXCEPT !.lastChar = c]

\* a letter that extends the buffered literal prefix to `to`
extend(sp, c, to) == Outcome([sp EXCEPT !.buffer = to, !.lastChar = c], "")

\* a letter that completes a literal and commits its value
complete(sp, c, value) ==
    Outcome([addValue(sp, value) EXCEPT !.buffer = <<>>, !.lastChar = c], "")

\* letter cases that start a literal with t, f or n whatever the buffer holds
processLetterRestarts(sp, c) ==
    LET b == sp.buffer
    IN  CASE c = "t" -> extend(sp, c, <<"t">>)
          [] c = "r" -> IF b = <<"t">> THEN extend(sp, c, <<"t", "r">>)
                        ELSE Outcome(sp, "unexpected 'r'")
          [] c = "u" -> IF b = <<"t", "r">> THEN extend(sp, c, <<"t", "r", "u">>)
                        ELSE IF b = <<"n">> THEN extend(sp, c, <<"n", "u">>)
                        ELSE Outcome(sp, "unexpected 'u'")
          [] c = "e" -> IF b = <<"t", "r", "u">> THEN complete(sp, c, Bool(TRUE))
                        ELSE IF b = <<"f", "a", "l", "s">> THEN complete(sp, c, Bool(FALSE))
                        ELSE Outcome(sp, "unexpected 'e'")
          [] c = "f" -> extend(sp, c, <<"f">>)
          [] c = "a" -> IF b = <<"f">> THEN extend(sp, c, <<"f", "a">>)
                        ELSE Outcome(sp, "unexpected 'a'")
          [] c = "l" -> IF b = <<"f", "a">> THEN extend(sp, c, <<"f", "a", "l">>)
                        ELSE IF b = <<"n", "u">> THEN extend(sp, c, <<"n", "u", "l">>)
                        ELSE IF b = <<"n", "u", "l">> THEN complete(sp, c, Null)
                        ELSE Outcome(sp, "unexpected 'l'")
          [] c = "s" -> IF b = <<"f", "a", "l">> THEN extend(sp, c, <<"f", "a", "l", "s">>)
                        ELSE Outcome(sp, "unexpected 's'")
          [] c = "n" -> extend(sp, c, <<"n">>)

\* the letter cases of ProcessChar (stream.go 240-349)
processLetter(sp, c) ==
    LET b == sp.buffer
    IN  CASE c = "t" -> IF b # <<>> THEN Outcome(sp, "unexpected 't'")
                        ELSE extend(sp, c, <<"t">>)
          [] c = "r" -> IF b = <<"t">> THEN extend(sp, c, <<"t", "r">>)
                        ELSE Outcome(sp, "unexpected 'r'")
          [] c = "u" -> IF b = <<"t", "r">> THEN extend(sp, c, <<"t", "r", "u">>)
                        ELSE IF b = <<"n">> THEN extend(sp, c, <<"n", "u">>)
                        ELSE Outcome(sp, "unexpected 'u'")
          [] c = "e" -> IF b = <<"t", "r", "u">> THEN complete(sp, c, Bool(TRUE))
                        ELSE IF b = <<"f", "a", "l", "s">> THEN complete(sp, c, Bool(FALSE))
                        ELSE Outcome(sp, "unexpected 'e'")
          [] c = "f" -> IF b # <<>> THEN Outcome(sp, "unexpected 'f'")
                        ELSE extend(sp, c, <<"f">>)
          [] c = "a" -> IF b = <<"f">> THEN extend(sp, c, <<"f", "a">>)
                        ELSE Outcome(sp, "unexpected 'a'")
          [] c = "l" -> IF b = <<"f", "a">> THEN extend(sp, c, <<"f", "a", "l">>)
                        ELSE IF b = <<"n", "u">> THEN extend(sp, c, <<"n", "u", "l">>)
                        ELSE IF b = <<"n", "u", "l">> THEN complete(sp, c, Null)
                        ELSE Outcome(sp, "unexpected 'l'")
          [] c = "s" -> IF b = <<"f", "a", "l">> THEN extend(sp, c, <<"f", "a", "l", "s">>)
                        ELSE Outcome(sp, "unexpected 's'")
          [] c = "n" -> IF b # <<>> THEN Outcome(sp, "unexpected 'n'")
                        ELSE extend(sp, c, <<"n">>)

LiteralLetters == {"t", "r", "u", "e", "f", "a", "l", "s", "n"}

\* a default case that throws the buffer away when it rejects the character
processDefaultClears(sp, c) ==
    IF isDigit(c) \/ c \in {"-", ".", "+", "e", "E"}
    THEN Outcome([sp EXCEPT !.buffer = @ \o Utf8(c), !.lastChar = c], "")
    ELSE Outcome([sp EXCEPT !.buffer = <<>>], "unexpected character")

\* the default case of ProcessChar (stream.go 350-358)
processDefault(sp, c) ==
    IF isDigit(c) \/ c \in {"-", ".", "+", "e", "E"}
    THEN Outcome([sp EXCEPT !.buffer = @ \o Utf8(c), !.lastChar = c], "")
    ELSE Outcome(sp, "unexpected character")

\* ProcessChar past the number finalisation: string mode, then the switch on c
dispatch(sp, c) ==
        IF sp.inString THEN Outcome(processInString(sp, c), "")
        ELSE CASE c \in Whitespace -> Outcome([sp EXCEPT !.lastChar = c], "")
               [] c = "{" -> Outcome(processLeftBrace(sp, c), "")
               [] c = "}" -> Outcome(processClose(sp, c), "")
               [] c = "[" -> Outcome(processLeftBracket(sp, c), "")
               [] c = "]" -> Outcome(processClose(sp, c), "")
               [] c = QUOTE ->
                    Outcome([sp EXCEPT !.inString = TRUE, !.buffer = <<>>, !.lastChar = c], "")
               [] c = ":" ->
                    IF ~sp.expectColon THEN Outcome(sp, "unexpected ':'")
                    ELSE Outcome([sp EXCEPT !.expectColon = FALSE, !.lastChar = c], "")
               [] c = "," -> Outcome(processComma(sp, c), "")
               [] c \in LiteralLetters -> processLetter(sp, c)
               [] OTHER -> processDefault(sp, c)

\* a ProcessChar that finalises the buffered number after the character has
\* been processed
ProcessCharFinalizeLast(sp0, c) ==
    CHOOSE o \in {IF d.err # "" THEN d ELSE Outcome(finalizeNumber(d.sp, c), "") :
                  d \in {dispatch(sp0, c)}} : TRUE

\* StreamingParser.ProcessChar
ProcessCharOutcome(sp0, c) ==
    CHOOSE o \in {dispatch(s, c) : s \in {finalizeNumber(sp0, c)}} : TRUE

\* the loop of ProcessString: ProcessChar on each character in order, stopping
\* at the first error
RECURSIVE processEach(_, _)
processEach(sp, chars) ==
    IF chars = <<>> THEN Outcome(sp, "")
    ELSE CHOOSE r \in {IF o.err # "" THEN o ELSE processEach(o.sp, Tail(chars)) :
                        o \in {ProcessCharOutcome(sp, Head(chars))}} : TRUE

\* StreamingParser.ProcessString on a chunk of bytes
ProcessStringOutcome(sp, chunk) == processEach(sp, Runes(chunk))

\* the Go value a stored value denotes, containers read through the heap
RECURSIVE View(_, _)
View(heap, v) ==
    CASE v.t \in {"mapptr", "mapref"} ->
           Obj([k \in DOMAIN heap[v.a].m |-> View(heap, heap[v.a].m[k])])
      [] v.t = "sliceptr" ->
           Arr([i \in 1..Len(heap[v.a].e) |-> View(heap, heap[v.a].e[i])])
      [] v.t = "arr" -> Arr([i \in 1..Len(v.e) |-> View(heap, v.e[i])])
      [] OTHER -> v

\* StreamingParser.GetCurrentOutput, as a value
GetCurrentOutput(sp) == View(sp.heap, sp.output)

(***************************************************************************)
(* State                                                                   *)
(*   lexer   the Lexer: input, pos, start, tokens                          *)
(*   parser  the Parser: tokens, current                                   *)
(*   frames  the parseObject / parseArray activations below the running    *)
(*           one, innermost last: the container built so far and, for an   *)
(*           object, the key whose value is being parsed                   *)
(*   ret     the (value, error) the last returned call gave its caller     *)
(*   phase   where the batch pipeline is: "lex", "parse", "value" (about   *)
(*           to call parseValue), "loop" (at the head of a container's     *)
(*           loop), "ret" (a call has returned), "done", or "idle"         *)
(*   parsed  what ParsePartialJSON returned                                *)
(*   result  what ParsePartialJSONObject returned                          *)
(*   sp      the StreamingParser's fields                                  *)
(*   err     the error the last ProcessChar / ProcessString returned       *)
(*   doc     what the caller is doing.  SpecBatch: the document (tree) and *)
(*           the length of the prefix parsed (cut).  SpecAny: the three    *)
(*           parts of the text (ctx, tok, rest).  SpecEquiv: the           *)
(*           document, its text, the bytes handed to the decoder (off),    *)
(*           whether ProcessString was used (chunked), whether a chunk     *)
(*           ended inside a character (split), and the decoder inside one  *)
(*           ProcessString call on the whole text (whole).  Spec: the      *)
(*           calls made since the last Reset (calls) and how the session   *)
(*           stood when Reset was called (prior)                           *)
(*   fed     the characters passed to ProcessChar since the session was    *)
(*           created or last Reset                                         *)
(***************************************************************************)
VARIABLES lexer, parser, frames, ret, phase, parsed, result, sp, err, doc, fed

vars == <<lexer, parser, frames, ret, phase, parsed, result, sp, err, doc, fed>>

batchVars == <<lexer, parser, frames, ret, phase, parsed, result>>

NoRet == Ret(Null, "")

\* NewLexer
NewLexer(inp) == [input |-> inp, pos |-> 0, start |-> 0, tokens |-> <<>>]

\* NewParser on the tokens without their last one
NewParserBeforeEOF(toks) ==
    [tokens |-> SubSeq(toks, 1, Len(toks) - 1), current |-> 0]

\* NewParser
NewParser(toks) == [tokens |-> toks, current |-> 0]

(***************************************************************************)
(* Lexer.Tokenize, one scanToken per step                                  *)
(***************************************************************************)
ScanToken ==
    /\ phase = "lex"
    /\ lexer.pos < Len(lexer.input)
    /\ LET r == scanToken(lexer.input, lexer.pos, lexer.tokens)
       IN  lexer' = [lexer EXCEPT !.start = lexer.pos, !.pos = r.pos, !.tokens = r.tokens]
    /\ UNCHANGED <<parser, frames, ret, phase, parsed, result, sp, err, doc, fed>>

\* the end of Tokenize, and ParsePartialJSON's NewParser(tokens)
TokenizeEOF ==
    /\ phase = "lex"
    /\ lexer.pos >= Len(lexer.input)
    /\ lexer' = [lexer EXCEPT !.tokens = Append(@, EOFToken)]
    /\ parser' = NewParser(lexer'.tokens)
    /\ phase' = "parse"
    /\ UNCHANGED <<frames, ret, parsed, result, sp, err, doc, fed>>

(***************************************************************************)
(* Parser.Parse and the recursive descent, one call or loop pass per step  *)
(***************************************************************************)
\* the running call returns r to its caller
Return(r, cur, fr) ==
    /\ ret' = r
    /\ parser' = [parser EXCEPT !.current = cur]
    /\ frames' = fr
    /\ phase' = "ret"

\* Parser.Parse up to its call of parseValue
Parse ==
    /\ phase = "parse"
    /\ IF Len(parser.tokens) = 0
       THEN /\ parsed' = Ret(Null, "no tokens to parse")
            /\ result' = Ret(NilMap, "no tokens to parse")
            /\ phase' = "done"
       ELSE /\ phase' = "value"
            /\ UNCHANGED <<parsed, result>>
    /\ UNCHANGED <<lexer, parser, frames, ret, sp, err, doc, fed>>

\* Parser.parseValue on a token that opens no container
parseValue ==
    /\ phase = "value"
    /\ LET toks  == parser.tokens
           cur   == parser.current
           token == peek(toks, cur)
           next  == advance(toks, cur)
       IN  /\ isAtEnd(toks, cur) \/ token.Type \notin {"LeftBrace", "LeftBracket"}
           /\ IF isAtEnd(toks, cur)
              THEN Return(Ret(Null, "unexpected end of JSON"), cur, frames)
              ELSE CASE token.Type = "String" -> Return(Ret(Str(token.Value), ""), next, frames)
                     [] token.Type = "Number" -> Return(parseNumberToken(token.Value), next, frames)
                     [] token.Type = "True"   -> Return(Ret(Bool(TRUE), ""), next, frames)
                     [] token.Type = "False"  -> Return(Ret(Bool(FALSE), ""), next, frames)
                     [] token.Type = "Null"   -> Return(Ret(Null, ""), next, frames)
                     [] OTHER -> Return(Ret(Null, "unexpected token"), next, frames)
    /\ UNCHANGED <<lexer, parsed, result, sp, err, doc, fed>>

\* Parser.parseObject up to its loop (json.go 276-286)
parseObject ==
    /\ phase = "value"
    /\ ~isAtEnd(parser.tokens, parser.current)
    /\ peek(parser.tokens, parser.current).Type = "LeftBrace"
    /\ LET toks == parser.tokens
           c1   == advance(toks, parser.current)
       IN  IF check(toks, c1, "RightBrace")
           THEN Return(Ret(Obj(EmptyMap), ""), advance(toks, c1), frames)
           ELSE /\ parser' = [parser EXCEPT !.current = c1]
                /\ frames' = Append(frames, ObjFrame(EmptyMap, <<>>))
                /\ phase' = "loop"
                /\ UNCHANGED ret
    /\ UNCHANGED <<lexer, parsed, result, sp, err, doc, fed>>

\* one pass of parseObject's loop up to its call of parseValue (json.go 288-327)
parseObjectKey ==
    /\ phase = "loop"
    /\ frames[Len(frames)].kind = "obj"
    /\ LET toks  == parser.tokens
           cur   == parser.current
           obj   == frames[Len(frames)].m
           outer == Pop(frames)
           key   == peek(toks, cur).Value
           c1    == advance(toks, cur)
           c2    == advance(toks, c1)
       IN  IF isAtEnd(toks, cur) THEN Return(Ret(Obj(obj), ""), cur, outer)
           ELSE IF ~check(toks, cur, "String")
           THEN IF check(toks, cur, "EOF") THEN Return(Ret(Obj(obj), ""), cur, outer)
                ELSE Return(Ret(NilMap, "expected string key in object"), cur, outer)
           ELSE IF ~check(toks, c1, "Colon")
           THEN IF check(toks, c1, "EOF")
                THEN Return(Ret(Obj(setNil(obj, key)), ""), c1, outer)
                ELSE Return(Ret(NilMap, "expected ':' after key in object"), c1, outer)
           ELSE IF check(toks, c2, "EOF")
           THEN Return(Ret(Obj(setNil(obj, key)), ""), c2, outer)
           ELSE /\ parser' = [parser EXCEPT !.current = c2]
                /\ frames' = Append(outer, ObjFrame(obj, key))
                /\ phase' = "value"
                /\ UNCHANGED ret
    /\ UNCHANGED <<lexer, parsed, result, sp, err, doc, fed>>

\* parseObject once its parseValue call has returned (json.go 327-361)
parseObjectValue ==
    /\ phase = "ret"
    /\ frames # <<>>
    /\ frames[Len(frames)].kind = "obj"
    /\ LET toks  == parser.tokens
           cur   == parser.current
           key   == frames[Len(frames)].key
           old   == frames[Len(frames)].m
           obj   == MapSet(old, key, ret.val)
           outer == Pop(frames)
           c1    == advance(toks, cur)
       IN  IF ret.err # ""
           THEN IF check(toks, cur, "EOF")
                THEN Return(Ret(Obj(setNil(old, key)), ""), cur, outer)
                ELSE Return(Ret(NilMap, ret.err), cur, outer)
           ELSE IF ~check(toks, cur, "Comma") /\ ~check(toks, cur, "RightBrace")
           THEN IF check(toks, cur, "EOF") THEN Return(Ret(Obj(obj), ""), cur, outer)
                ELSE Return(Ret(NilMap, "expected ',' or '}' after object value"), cur, outer)
           ELSE IF check(toks, cur, "RightBrace") THEN Return(Ret(Obj(obj), ""), c1, outer)
           ELSE IF check(toks, c1, "EOF") THEN Return(Ret(Obj(obj), ""), c1, outer)
           ELSE /\ parser' = [parser EXCEPT !.current = c1]
                /\ frames' = Append(outer, ObjFrame(obj, <<>>))
                /\ phase' = "loop"
                /\ UNCHANGED ret
    /\ UNCHANGED <<lexer, parsed, result, sp, err, doc, fed>>

\* Parser.parseArray up to its loop (json.go 366-376)
parseArray ==
    /\ phase = "value"
    /\ ~isAtEnd(parser.tokens, parser.current)
    /\ peek(parser.tokens, parser.current).Type = "LeftBracket"
    /\ LET toks == parser.tokens
           c1   == advance(toks, parser.current)
       IN  IF check(toks, c1, "RightBracket")
           THEN Return(Ret(Arr(<<>>), ""), advance(toks, c1), frames)
           ELSE /\ parser' = [parser EXCEPT !.current = c1]
                /\ frames' = Append(frames, ArrFrame(<<>>))
                /\ phase' = "loop"
                /\ UNCHANGED ret
    /\ UNCHANGED <<lexer, parsed, result, sp, err, doc, fed>>

\* one pass of parseArray's loop up to its call of parseValue (json.go 378-385)
parseArrayElem ==
    /\ phase = "loop"
    /\ frames[Len(frames)].kind = "arr"
    /\ IF isAtEnd(parser.tokens, parser.current)
       THEN Return(Ret(Arr(frames[Len(frames)].e), ""), parser.current, Pop(frames))
       ELSE /\ phase' = "value"
            /\ UNCHANGED <<parser, frames, ret>>
    /\ UNCHANGED <<lexer, parsed, result, sp, err, doc, fed>>

\* parseArray once its parseValue call has returned (json.go 385-418)
parseArrayValue ==
    /\ phase = "ret"
    /\ frames # <<>>
    /\ frames[Len(frames)].kind = "arr"
    /\ LET toks  == parser.tokens
           cur   == parser.current
           old   == frames[Len(frames)].e
           arr   == appendValue(old, ret.val)
           outer == Pop(frames)
           c1    == advance(toks, cur)
       IN  IF ret.err # ""
           THEN IF check(toks, cur, "EOF") THEN Return(Ret(Arr(old), ""), cur, outer)
                ELSE Return(Ret(NilSlice, ret.err), cur, outer)
           ELSE IF ~check(toks, cur, "Comma") /\ ~check(toks, cur, "RightBracket")
           THEN IF check(toks, cur, "EOF") THEN Return(Ret(Arr(arr), ""), cur, outer)
                ELSE Return(Ret(NilSlice, "expected ',' or ']' after array value"), cur, outer)
           ELSE IF check(toks, cur, "RightBracket") THEN Return(Ret(Arr(arr), ""), c1, outer)
           ELSE IF check(toks, c1, "EOF") THEN Return(Ret(Arr(arr), ""), c1, outer)
           ELSE /\ parser' = [parser EXCEPT !.current = c1]
                /\ frames' = Append(outer, ArrFrame(arr))
                /\ phase' = "loop"
                /\ UNCHANGED ret
    /\ UNCHANGED <<lexer, parsed, result, sp, err, doc, fed>>

\* ParsePartialJSONObject passing on whatever value was parsed
objectOrErrorAnyValue(p) ==
    IF p.err # "" THEN Ret(NilMap, p.err) ELSE Ret(p.val, "")

\* ParsePartialJSONObject on what ParsePartialJSON returned (json.go 455-469)
objectOrError(p) ==
    IF p.err # "" THEN Ret(NilMap, p.err)
    ELSE IF p.val.t = "obj" THEN Ret(p.val, "")
    ELSE Ret(NilMap, "input is not a JSON object")

\* the outermost parseValue has returned: Parse, ParsePartialJSON and
\* ParsePartialJSONObject return (json.go 224-228, 445-469)
ParseReturn ==
    /\ phase = "ret"
    /\ frames = <<>>
    /\ parsed' = IF ret.err # "" THEN Ret(Null, ret.err) ELSE ret
    /\ result' = objectOrError(parsed')
    /\ phase' = "done"
    /\ UNCHANGED <<lexer, parser, frames, ret, sp, err, doc, fed>>

(***************************************************************************)
(* Input documents.  A document is a tree of nodes                         *)
(*   [n |-> "lit", text, tok, val]   a scalar: its text, the token it      *)
(*                                   lexes to and the value it denotes     *)
(*   [n |-> "arr", elems]                                                  *)
(*   [n |-> "obj", pairs]            pairs of [key, val]                   *)
(* written out as in the repository's tests: "key": value pairs separated  *)
(* by ", " in objects, elements separated by "," in arrays.                *)
(***************************************************************************)
Lit(text, type, tokval, val) ==
    [n |-> "lit", text |-> text, tok |-> Token(type, tokval), val |-> val]

ArrNode(elems) == [n |-> "arr", elems |-> elems]

ObjNode(pairs) == [n |-> "obj", pairs |-> pairs]

Pair(key, val) == [key |-> key, val |-> val]

Int64(neg, mag) == [t |-> "int", neg |-> neg, mag |-> mag]

Float64(neg, dig, exp) == [t |-> "float", fneg |-> neg, fdig |-> dig, fexp |-> exp]

\* a number too large for float64: it denotes no value
NoValue == [t |-> "novalue"]

RECURSIVE Text(_)
RECURSIVE PairsText(_, _)
RECURSIVE ElemsText(_, _)
Text(node) ==
    CASE node.n = "lit" -> node.text
      [] node.n = "arr" -> <<"[">> \o ElemsText(node.elems, 1) \o <<"]">>
      [] node.n = "obj" -> <<"{">> \o PairsText(node.pairs, 1) \o <<"}">>

PairsText(pairs, i) ==
    IF i > Len(pairs) THEN <<>>
    ELSE (IF i > 1 THEN <<",", " ">> ELSE <<>>)
         \o <<QUOTE>> \o pairs[i].key \o <<QUOTE, ":", " ">> \o Text(pairs[i].val)
         \o PairsText(pairs, i + 1)

ElemsText(elems, i) ==
    IF i > Len(elems) THEN <<>>
    ELSE (IF i > 1 THEN <<",">> ELSE <<>>) \o Text(elems[i]) \o ElemsText(elems, i + 1)

NumNeg150 == Lit(<<"-", "1", ".", "5", "e", "+", "2">>, "Number",
                 <<"-", "1", ".", "5", "e", "+", "2">>, Float64(TRUE, <<"1", "5">>, 1))

Num12 == Lit(<<"1", "2">>, "Number", <<"1", "2">>, Int64(FALSE, <<"1", "2">>))

Num7 == Lit(<<"7">>, "Number", <<"7">>, Int64(FALSE, <<"7">>))

NumHuge == Lit(<<"1", "e", "9", "9", "9">>, "Number", <<"1", "e", "9", "9", "9">>, NoValue)

LitTrue == Lit(<<"t", "r", "u", "e">>, "True", <<"t", "r", "u", "e">>, Bool(TRUE))

LitFalse == Lit(<<"f", "a", "l", "s", "e">>, "False", <<"f", "a", "l", "s", "e">>, Bool(FALSE))

LitNull == Lit(<<"n", "u", "l", "l">>, "Null", <<"n", "u", "l", "l">>, Null)

\* the string "a\"b": the lexer keeps the raw text between the quotes
StrEscaped == Lit(<<QUOTE, "a", BACKSLASH, QUOTE, "b", QUOTE>>, "String",
                  <<"a", BACKSLASH, QUOTE, "b">>, Str(<<"a", BACKSLASH, QUOTE, "b">>))

\* [12,[null],{"k": false}]
ArrMixed ==
    ArrNode(<<Num12, ArrNode(<<LitNull>>), ObjNode(<<Pair(<<"k">>, LitFalse)>>)>>)

\* {"x": {"y": 7}}
ObjNested ==
    ObjNode(<<Pair(<<"x">>, ObjNode(<<Pair(<<"y">>, Num7)>>))>>)

BatchValues == {NumNeg150, LitTrue, StrEscaped, ArrMixed, ObjNested, NumHuge}

\* the most pairs of a generated top-level object
MaxPairs == 2

KeyNames == <<"a", "b", "c", "d">>

\* the objects of n pairs keyed a, b, ... with values from vals
RECURSIVE ObjectsOf(_, _)
ObjectsOf(vals, n) ==
    IF n = 0 THEN {ObjNode(<<>>)}
    ELSE {ObjNode(Append(o.pairs, Pair(<<KeyNames[n]>>, v))) : o \in ObjectsOf(vals, n - 1), v \in vals}

BatchDocs == UNION {ObjectsOf(BatchValues, n) : n \in 0..MaxPairs}

\* a run of the batch pipeline on the first cut characters of a document
BatchRun(tree, cut) ==
    /\ lexer = NewLexer(SubSeq(Text(tree), 1, cut))
    /\ parser = NewParser(<<>>)
    /\ frames = <<>>
    /\ ret = NoRet
    /\ phase = "lex"
    /\ parsed = NoRet
    /\ result = NoRet

\* the decoder is not part of a batch run
DecoderIdle ==
    /\ sp = NewStreamingParser(NilOutput)
    /\ err = ""
    /\ fed = <<>>

InitBatch ==
    /\ \E tree \in BatchDocs : \E cut \in 1..Len(Text(tree)) :
          /\ doc = [tree |-> tree, cut |-> cut]
          /\ BatchRun(tree, cut)
    /\ DecoderIdle

NextBatch ==
    \/ ScanToken
    \/ TokenizeEOF
    \/ Parse
    \/ parseValue
    \/ parseObject
    \/ parseObjectKey
    \/ parseObjectValue
    \/ parseArray
    \/ parseArrayElem
    \/ parseArrayValue
    \/ ParseReturn

SpecBatch == InitBatch /\ [][NextBatch]_vars

(***************************************************************************)
(* What a truncated document denotes, read off the document tree (not off  *)
(* the parser): the token list of a tree, the value of a complete tree,    *)
(* and the value recovered from the first n tokens of a tree.              *)
(***************************************************************************)
RECURSIVE TokensOf(_)
RECURSIVE PairsTokens(_, _)
RECURSIVE ElemsTokens(_, _)
TokensOf(node) ==
    CASE node.n = "lit" -> <<node.tok>>
      [] node.n = "arr" -> <<Token("LeftBracket", <<"[">>)>> \o ElemsTokens(node.elems, 1)
                           \o <<Token("RightBracket", <<"]">>)>>
      [] node.n = "obj" -> <<Token("LeftBrace", <<"{">>)>> \o PairsTokens(node.pairs, 1)
                           \o <<Token("RightBrace", <<"}">>)>>

PairsTokens(pairs, i) ==
    IF i > Len(pairs) THEN <<>>
    ELSE (IF i > 1 THEN <<Token("Comma", <<",">>)>> ELSE <<>>)
         \o <<Token("String", pairs[i].key), Token("Colon", <<":">>)>>
         \o TokensOf(pairs[i].val) \o PairsTokens(pairs, i + 1)

ElemsTokens(elems, i) ==
    IF i > Len(elems) THEN <<>>
    ELSE (IF i > 1 THEN <<Token("Comma", <<",">>)>> ELSE <<>>)
         \o TokensOf(elems[i]) \o ElemsTokens(elems, i + 1)

TokCount(node) == Len(TokensOf(node))

\* the value of a complete tree
RECURSIVE Full(_)
Full(node) ==
    CASE node.n = "lit" -> node.val
      [] node.n = "arr" -> Arr([i \in 1..Len(node.elems) |-> Full(node.elems[i])])
      [] node.n = "obj" ->
           Obj([k \in {node.pairs[i].key : i \in 1..Len(node.pairs)} |->
                   Full(node.pairs[CHOOSE i \in 1..Len(node.pairs) :
                                      /\ node.pairs[i].key = k
                                      /\ \A j \in 1..Len(node.pairs) :
                                            node.pairs[j].key = k => j <= i].val)])

\* the value recovered from the first n tokens of a tree, 1 <= n <= TokCount:
\* rem counts the tokens left when pair or element i is reached
RECURSIVE Recovered(_, _)
RECURSIVE RecoveredPairs(_, _, _, _)
RECURSIVE RecoveredElems(_, _, _, _)
Recovered(node, n) ==
    CASE node.n = "lit" -> node.val
      [] node.n = "arr" -> Arr(RecoveredElems(node.elems, 1, n - 1, <<>>))
      [] node.n = "obj" -> Obj(RecoveredPairs(node.pairs, 1, n - 1, EmptyMap))

RecoveredPairs(pairs, i, rem, acc) ==
    IF rem = 0 \/ i > Len(pairs) THEN acc
    ELSE LET key == pairs[i].key
             val == pairs[i].val
             cnt == TokCount(val)
         IN  IF rem <= 2 THEN MapSet(acc, key, Null)
             ELSE IF rem - 2 < cnt THEN MapSet(acc, key, Recovered(val, rem - 2))
             ELSE IF rem - 2 = cnt THEN MapSet(acc, key, Full(val))
             ELSE RecoveredPairs(pairs, i + 1, rem - 2 - cnt - 1, MapSet(acc, key, Full(val)))

RecoveredElems(elems, i, rem, acc) ==
    IF rem = 0 \/ i > Len(elems) THEN acc
    ELSE LET cnt == TokCount(elems[i])
         IN  IF rem < cnt THEN Append(acc, Recovered(elems[i], rem))
             ELSE IF rem = cnt THEN Append(acc, Full(elems[i]))
             ELSE RecoveredElems(elems, i + 1, rem - cnt - 1, Append(acc, Full(elems[i])))

\* the kinds of the containers still open after the first n tokens of a tree,
\* outermost first (none when the tree is complete)
RECURSIVE OpenKinds(_, _)
RECURSIVE OpenInPairs(_, _, _)
RECURSIVE OpenInElems(_, _, _)
OpenKinds(node, n) ==
    IF node.n = "lit" \/ n >= TokCount(node) THEN <<>>
    ELSE IF node.n = "arr" THEN <<"arr">> \o OpenInElems(node.elems, 1, n - 1)
    ELSE <<"obj">> \o OpenInPairs(node.pairs, 1, n - 1)

OpenInPairs(pairs, i, rem) ==
    IF rem <= 2 \/ i > Len(pairs) THEN <<>>
    ELSE LET cnt == TokCount(pairs[i].val)
         IN  IF rem - 2 < cnt THEN OpenKinds(pairs[i].val, rem - 2)
             ELSE IF rem - 2 = cnt THEN <<>>
             ELSE OpenInPairs(pairs, i + 1, rem - 2 - cnt - 1)

OpenInElems(elems, i, rem) ==
    IF rem = 0 \/ i > Len(elems) THEN <<>>
    ELSE LET cnt == TokCount(elems[i])
         IN  IF rem < cnt THEN OpenKinds(elems[i], rem)
             ELSE IF rem = cnt THEN <<>>
             ELSE OpenInElems(elems, i + 1, rem - cnt - 1)

\* a number token that parses as neither int64 nor float64
BadNumber(tok) == tok.Type = "Number" /\ parseNumberToken(tok.Value).err # ""

\* the tokens of the input, without the end-of-input token
InputTokens == SubSeq(lexer.tokens, 1, Len(lexer.tokens) - 1)

\* the tokens up to the cut; a number cut short so that it no longer parses
\* (such as 1e or -) is the start of a value that never arrived
CutTokens ==
    IF InputTokens # <<>> /\ BadNumber(InputTokens[Len(InputTokens)])
    THEN Pop(InputTokens) ELSE InputTokens

\* the run is over and its input is a whole number of tokens of its document,
\* every number among them denoting a value
TokenCut ==
    /\ phase = "done"
    /\ CutTokens # <<>>
    /\ CutTokens = SubSeq(TokensOf(doc.tree), 1, Len(CutTokens))
    /\ \A i \in 1..Len(CutTokens) : ~BadNumber(CutTokens[i])

\* the containers open at the cut
OpenAtCut == OpenKinds(doc.tree, Len(CutTokens))

(***************************************************************************)
(* Claims about the batch pipeline, checked under SpecBatch                *)
(***************************************************************************)
\* a number token that parses as neither int64 nor float64 and is followed by
\* another token
BadNumberFollowed == \E i \in 1..(Len(InputTokens) - 1) : BadNumber(InputTokens[i])

\* C1 as stated: ParsePartialJSONObject returns a mapping and no error for every
\* non-empty prefix of every well-formed JSON object text.
C1_NeverRejects ==
    phase = "done" => result.err = "" /\ result.val.t = "obj"

\* C1 as amended: for every non-empty prefix of a well-formed JSON object text,
\* ParsePartialJSONObject returns a mapping and no error wherever the cut falls,
\* unless the prefix holds a number token outside the float64 range (one that
\* parses as neither int64 nor float64) followed by another token: then it
\* returns the "invalid number" error and the nil mapping.
C1_RejectsOnlyUnparseableNumber ==
    phase = "done" =>
        IF BadNumberFollowed THEN result = Ret(NilMap, "invalid number")
        ELSE result.err = "" /\ result.val.t = "obj"

\* a document cut inside a number, two containers deep, parsed without error
C1_Witness ==
    /\ phase = "done"
    /\ doc.cut < Len(Text(doc.tree))
    /\ InputTokens # <<>> /\ BadNumber(InputTokens[Len(InputTokens)])
    /\ ~BadNumberFollowed
    /\ result.err = "" /\ result.val.t = "obj"
    /\ \E k \in DOMAIN result.val.m : result.val.m[k].t = "obj"

\* the number of tokens up to and including the value of top-level pair i
RECURSIVE PairEnd(_, _)
PairEnd(pairs, i) ==
    IF i = 0 THEN 1
    ELSE PairEnd(pairs, i - 1) + (IF i > 1 THEN 1 ELSE 0) + 2 + TokCount(pairs[i].val)

\* the position of the key token of top-level pair i
KeyAt(pairs, i) == PairEnd(pairs, i - 1) + (IF i > 1 THEN 2 ELSE 1)

\* the top-level pairs whose value is complete at the cut, and the pair (if any)
\* whose key, or key and colon, are the last tokens before the cut
CompletedPairs ==
    {i \in 1..Len(doc.tree.pairs) : PairEnd(doc.tree.pairs, i) <= Len(CutTokens)}

DanglingPairs ==
    {i \in 1..Len(doc.tree.pairs) :
        /\ KeyAt(doc.tree.pairs, i) <= Len(CutTokens)
        /\ Len(CutTokens) <= KeyAt(doc.tree.pairs, i) + 1}

\* C2: when the token stream ends inside an object (here the top-level one, its
\* values scalars or complete containers), the result is, without error, the
\* mapping of exactly the pairs completed so far, plus the last key mapped to
\* null when the input ended after that key or after its colon; no other key.
C2_ObjectTruncation ==
    TokenCut /\ OpenAtCut = <<"obj">> =>
        /\ result.err = ""
        /\ result.val.t = "obj"
        /\ DOMAIN result.val.m =
              {doc.tree.pairs[i].key : i \in CompletedPairs \cup DanglingPairs}
        /\ \A i \in CompletedPairs :
              result.val.m[doc.tree.pairs[i].key] = Full(doc.tree.pairs[i].val)
        /\ \A i \in DanglingPairs : result.val.m[doc.tree.pairs[i].key] = Null

\* the input ended after the colon of the second key, the first pair complete
C2_Witness ==
    /\ TokenCut /\ OpenAtCut = <<"obj">>
    /\ CutTokens[Len(CutTokens)].Type = "Colon"
    /\ CompletedPairs = {1} /\ DanglingPairs = {2}
    /\ result.val.m[<<"b">>] = Null

\* C3: when the input ends inside the innermost of several nested open objects,
\* the result is, without error, the value the document tree gives at the cut:
\* every enclosing object holds the pairs completed before the cut, each open
\* object is the value of its key in its parent, and the innermost dangling key
\* maps to null.
C3_NestedTruncation ==
    TokenCut /\ Len(OpenAtCut) >= 2 /\ (\A i \in 1..Len(OpenAtCut) : OpenAtCut[i] = "obj") =>
        result = Ret(Recovered(doc.tree, Len(CutTokens)), "")

\* three objects open, a pair complete in the outermost, the innermost key dangling
C3_Witness ==
    /\ TokenCut /\ OpenAtCut = <<"obj", "obj", "obj">>
    /\ CutTokens[Len(CutTokens)].Type = "Colon"
    /\ result.val.m[<<"a">>] = Bool(TRUE)
    /\ result.val.m[<<"b">>] = Obj((<<"x">> :> Obj((<<"y">> :> Null))))

\* C4: when the token stream ends inside an array, each open array is returned,
\* without error, as the sequence of exactly the elements completed so far, in
\* input order (an element that is itself open holding what it completed).
C4_ArrayTruncation ==
    TokenCut /\ (\E i \in 1..Len(OpenAtCut) : OpenAtCut[i] = "arr") =>
        result = Ret(Recovered(doc.tree, Len(CutTokens)), "")

\* the input ended after the comma that follows the second element of an array
C4_Witness ==
    /\ TokenCut /\ OpenAtCut = <<"obj", "arr">>
    /\ CutTokens[Len(CutTokens)].Type = "Comma"
    /\ result.val.m[<<"a">>] = Arr(<<Int64(FALSE, <<"1", "2">>), Arr(<<Null>>)>>)

(***************************************************************************)
(* The lexer on a string that the input cuts short                         *)
(***************************************************************************)
\* the number of backslashes that immediately precede index j, counted no
\* further back than index from
BackslashRun(inp, from, j) ==
    CHOOSE n \in 0..(j - from) :
        /\ \A i \in 1..n : inp[j - i] = BACKSLASH
        /\ n = j - from \/ inp[j - n - 1] # BACKSLASH

\* the string opened by the quote at 0-based position p has no unescaped
\* closing quote before the end of inp
Unterminated(inp, p) ==
    \A j \in (p + 2)..Len(inp) :
        ~(inp[j] = QUOTE /\ BackslashRun(inp, p + 2, j) % 2 = 0)

\* a step of Tokenize that scans from an opening quote
StringScan ==
    /\ phase = "lex" /\ lexer.pos < Len(lexer.input)
    /\ lexer.input[lexer.pos + 1] = QUOTE
    /\ lexer'.pos > lexer.pos

\* C11 as stated: when the input ends inside a string, Tokenize emits no
\* string token for it, so the tokens are those before the opening quote
C11_NoTokenForTruncatedString ==
    [][StringScan /\ Unterminated(lexer.input, lexer.pos)
          => lexer'.tokens = lexer.tokens]_vars

\* C11: when the input ends inside a string, Tokenize appends a string token
\* that holds the raw bytes from after the opening quote to the end of the
\* input, and the scan stops at the end of the input
C11_PartialStringToken ==
    [][StringScan /\ Unterminated(lexer.input, lexer.pos)
          => /\ lexer'.tokens =
                  Append(lexer.tokens,
                         Token("String", SubSeq(lexer.input, lexer.pos + 2,
                                                Len(lexer.input))))
             /\ lexer'.pos = Len(lexer.input)]_vars

\* the cut {"a": true, "b has been lexed: its last token is the string b,
\* and the parse gives the key b the value null
C11_Witness ==
    /\ phase = "done"
    /\ lexer.input[lexer.start + 1] = QUOTE
    /\ Unterminated(lexer.input, lexer.start)
    /\ lexer.tokens[Len(lexer.tokens) - 1] = Token("String", <<"b">>)
    /\ result.err = "" /\ result.val.t = "obj"
    /\ <<"b">> \in DOMAIN result.val.m /\ result.val.m[<<"b">>] = Null

(***************************************************************************)
(* Calls of ParsePartialJSONObject on texts that need not be prefixes of a  *)
(* well-formed object: a text is ctx \o tok \o rest, where ctx is a prefix *)
(* of a well-formed document that ends where a value is expected, tok is a *)
(* value or a token that is no value, and rest is what follows it.  With   *)
(* all three empty the text is the empty input.                            *)
(***************************************************************************)
\* the top level, and places inside objects and arrays, where a value is due
ValueContexts ==
    {
      <<>>,
      <<"{", QUOTE, "a", QUOTE, ":", " ">>,
      <<"[", "1", ",", " ">>,
      <<"{", QUOTE, "a", QUOTE, ":", " ", "[", "1", ",", " ">>,
      <<"[", "{", QUOTE, "k", QUOTE, ":", " ">>,
      <<"{", QUOTE, "a", QUOTE, ":", " ", "{", QUOTE, "b", QUOTE, ":", " ">>
    }

\* the structural tokens that open no value
StructuralTokens ==
    {
      <<"}">>,
      <<"]">>,
      <<":">>,
      <<",">>
    }

\* a number token that parses as neither integer nor float
UnparseableNumber == NumHuge.text

NoValueTokens == StructuralTokens \cup {UnparseableNumber}

\* values of every kind
ValueTexts ==
    {
      <<"1">>,
      <<"1", ".", "5">>,
      <<QUOTE, "s", QUOTE>>,
      <<"t", "r", "u", "e">>,
      <<"n", "u", "l", "l">>,
      <<"[", "1", ",", " ", "2", ",", " ", "3", "]">>,
      <<"{", QUOTE, "a", QUOTE, ":", " ", "1", "}">>
    }

\* what follows tok: nothing, white space only, or further tokens
Followers ==
    {
      <<>>,
      <<" ">>,
      <<"}">>,
      <<"]">>,
      <<",", " ", "1">>
    }

\* texts the lexer gives no token, or a token that is no value: an unknown
\* character, an identifier that is no literal, a lone minus sign, a string
\* that is not closed
LexerOddities ==
    {
      <<"#">>,
      <<"f", "o", "o">>,
      <<"-">>,
      <<QUOTE, "a", BACKSLASH>>
    }

AnyInput(ctx, tok, rest) ==
    /\ doc = [ctx |-> ctx, tok |-> tok, rest |-> rest]
    /\ lexer = NewLexer(ctx \o tok \o rest)
    /\ parser = NewParser(<<>>)
    /\ frames = <<>>
    /\ ret = NoRet
    /\ phase = "lex"
    /\ parsed = NoRet
    /\ result = NoRet

InitAny ==
    /\ \/ AnyInput(<<>>, <<>>, <<>>)
       \/ \E ctx \in ValueContexts :
             \E tok \in ValueTexts \cup NoValueTokens \cup LexerOddities :
                \E rest \in Followers : AnyInput(ctx, tok, rest)
    /\ DecoderIdle

SpecAny == InitAny /\ [][NextBatch]_vars

\* the text after tok holds a token
Followed == doc.rest \notin {<<>>, <<" ">>}

\* C12 as stated: a structural token or an unparseable number in value
\* position makes ParsePartialJSON return an error and no value, at any depth
\* and wherever it stands, the last token before the end of input included
C12_HardErrors ==
    phase = "done" /\ doc.tok \in NoValueTokens
        => parsed.err # "" /\ parsed.val = Null

\* what holds of C12: the call fails when the token stands at the top level
\* or another token follows it, and succeeds when it is the last token of a
\* text that has opened a container
C12_SwallowedWhenLast ==
    phase = "done" /\ doc.tok \in NoValueTokens
        => IF doc.ctx = <<>> \/ Followed
           THEN parsed.err # "" /\ parsed.val = Null
           ELSE parsed.err = "" /\ parsed.val.t \in {"obj", "arr"}

\* C13 as stated: ParsePartialJSONObject on the empty input fails with the
\* error of Parser.Parse for zero tokens
C13_NoTokensError ==
    phase = "done" /\ lexer.input = <<>>
        => result = Ret(NilMap, "no tokens to parse")

\* C13: ParsePartialJSONObject on the empty input fails with the error of
\* parseValue at the end of the tokens, "unexpected end of JSON", and a nil
\* mapping: Tokenize has appended the end-of-input token, so Parse is given
\* one token, not zero
C13_UnexpectedEnd ==
    phase = "done" /\ lexer.input = <<>>
        => /\ lexer.tokens = <<EOFToken>>
           /\ result = Ret(NilMap, "unexpected end of JSON")

C13_Witness ==
    /\ phase = "done" /\ lexer.input = <<>>
    /\ parser.tokens = <<EOFToken>>
    /\ result.err = "unexpected end of JSON"

\* C14: ParsePartialJSONObject returns the "not an object" error and a nil
\* mapping whenever ParsePartialJSON returned a value that is no mapping, and
\* the parsed mapping unchanged when it returned one
C14_ObjectOrError ==
    phase = "done" /\ parsed.err = ""
        => IF parsed.val.t = "obj"
           THEN result = Ret(parsed.val, "")
           ELSE result = Ret(NilMap, "input is not a JSON object")

\* [1, 2, 3] was refused
C14_Witness ==
    /\ phase = "done" /\ parsed.err = ""
    /\ parsed.val = Arr(<<Int64(FALSE, <<"1">>), Int64(FALSE, <<"2">>), Int64(FALSE, <<"3">>)>>)
    /\ result = Ret(NilMap, "input is not a JSON object")

(***************************************************************************)
(* A decoder session driven by any caller: ProcessChar on the characters   *)
(* of Alphabet, ProcessString on the chunks of Chunks, and Reset, in any   *)
(* order; a call is made whatever the call before it returned.             *)
(***************************************************************************)
Alphabet == {"{", "}", "[", "]", ":", ",", QUOTE, BACKSLASH, "1", "e", "t", "x"}

Chunks ==
    { <<"{", QUOTE, "a", QUOTE, ":">>,
      <<"[", "1", "E", "3">>,
      <<"t", "r", "u", "e">>,
      <<QUOTE, "C3", "A9", QUOTE>> }

\* the most calls made on a session between two Resets
MaxCalls == 3

\* the batch pipeline is not part of a decoder session
BatchIdle ==
    /\ lexer = NewLexer(<<>>)
    /\ parser = NewParser(<<>>)
    /\ frames = <<>>
    /\ ret = NoRet
    /\ phase = "idle"
    /\ parsed = NoRet
    /\ result = NoRet

\* the characters a run of ProcessString's loop passes to ProcessChar
RECURSIVE consumed(_, _)
consumed(s, chars) ==
    IF chars = <<>> THEN <<>>
    ELSE CHOOSE r \in {IF o.err # "" THEN <<Head(chars)>>
                        ELSE <<Head(chars)>> \o consumed(o.sp, Tail(chars)) :
                        o \in {ProcessCharOutcome(s, Head(chars))}} : TRUE

Init ==
    /\ BatchIdle
    /\ \E output \in CallerOutputs : sp = NewStreamingParser(output)
    /\ err = ""
    /\ fed = <<>>
    /\ doc = [calls |-> 0, prior |-> "none"]

ProcessChar(c) ==
    /\ phase = "idle"
    /\ doc.calls < MaxCalls
    /\ \E o \in {ProcessCharOutcome(sp, c)} :
          /\ sp' = o.sp
          /\ err' = o.err
    /\ fed' = Append(fed, c)
    /\ doc' = [doc EXCEPT !.calls = @ + 1]
    /\ UNCHANGED batchVars

ProcessString(chunk) ==
    /\ phase = "idle"
    /\ doc.calls < MaxCalls
    /\ \E o \in {ProcessStringOutcome(sp, chunk)} :
          /\ sp' = o.sp
          /\ err' = o.err
    /\ fed' = fed \o consumed(sp, Runes(chunk))
    /\ doc' = [doc EXCEPT !.calls = @ + 1]
    /\ UNCHANGED batchVars

\* how the session stands when Reset is called on it: after an error, inside
\* a document (open container, pending key, unfinished token), or at rest
Standing ==
    IF err # "" THEN "error"
    ELSE IF Len(sp.stack) > 1 \/ sp.keys # <<>> \/ sp.buffer # <<>> \/ sp.inString
    THEN "open"
    ELSE "rest"

ResetCall ==
    /\ phase = "idle"
    /\ sp' = Reset(sp)
    /\ err' = ""
    /\ fed' = <<>>
    /\ doc' = [calls |-> 0, prior |-> Standing]
    /\ UNCHANGED batchVars

Next ==
    \/ \E c \in Alphabet : ProcessChar(c)
    \/ \E chunk \in Chunks : ProcessString(chunk)
    \/ ResetCall

Spec == Init /\ [][Next]_vars

(***************************************************************************)
(* Claims about a decoder session                                          *)
(***************************************************************************)
\* the session of a decoder after ProcessChar on each of chars in order,
\* whatever each call returned
RECURSIVE Replay(_, _)
Replay(s, chars) ==
    IF chars = <<>> THEN s
    ELSE Replay(ProcessCharOutcome(s, Head(chars)).sp, Tail(chars))

\* C6: Reset idempotence.  After a Reset, whatever was processed before it and
\* however that ended (in an error, inside a document, at rest), the session
\* and the output mapping after processing the characters B are those of a
\* freshly created decoder that processed B alone.
C6_ResetIdempotence ==
    doc.prior # "none" =>
        /\ sp = Replay(NewStreamingParser(NilOutput), fed)
        /\ GetCurrentOutput(sp) = GetCurrentOutput(Replay(NewStreamingParser(NilOutput), fed))

\* after a document left open by the earlier session, a later one has put a
\* pair in the mapping
C6_Witness ==
    /\ doc.prior = "open"
    /\ fed # <<>>
    /\ DOMAIN GetCurrentOutput(sp).m # {}

\* the characters a caller may hand to ProcessChar
AnyChar ==
    Alphabet \cup LiteralLetters \cup Digits \cup Whitespace
        \cup {"+", "-", ".", "E", "#", "T", EAcute, RuneError}

\* C8: decoder failure semantics.  In every state a session reaches, a call of
\* ProcessChar that returns an error leaves every field of the session
\* (container stack, key stack, buffer, inString, isEscaping, expectingKey,
\* expectColon, the containers) and the output mapping as they were at the
\* start of the call.
C8_ErrorLeavesState ==
    \A c \in AnyChar :
        LET o == ProcessCharOutcome(sp, c)
        IN  o.err # "" => o.sp = sp /\ GetCurrentOutput(o.sp) = GetCurrentOutput(sp)

\* a call has returned an error inside an open container with a number pending
C8_Witness ==
    /\ err # ""
    /\ fed # <<>>
    /\ fed[Len(fed)] \in {":", "x", "e"}
    /\ Len(sp.stack) > 1
    /\ sp.buffer # <<>>

(***************************************************************************)
(* Both pipelines on one complete document, as in the repository's stream  *)
(* tests: ParsePartialJSONObject on the whole text, then a decoder that is *)
(* handed the same text, one character at a time through ProcessChar or in *)
(* chunks of up to MaxChunk bytes through ProcessString.  The caller stops *)
(* at the first error.  A chunk is a Go string: it may end between the     *)
(* bytes of a character.  Beside the decoder that is fed (sp, err), the    *)
(* caller's record doc follows a second decoder that is inside a single    *)
(* ProcessString call on the whole text: doc.whole is that decoder's       *)
(* session and the error its loop has met, after the characters that end   *)
(* within the first doc.off bytes.                                         *)
(***************************************************************************)
\* -1.5E+2
NumNegExp == Lit(<<"-", "1", ".", "5", "E", "+", "2">>, "Number",
                 <<"-", "1", ".", "5", "E", "+", "2">>, Float64(TRUE, <<"1", "5">>, 1))

\* 1e3
Num1e3 == Lit(<<"1", "e", "3">>, "Number", <<"1", "e", "3">>, Float64(FALSE, <<"1">>, 3))

\* 2^63, the least integer past int64
NumBig == Lit(MinInt64Mag, "Number", MinInt64Mag, Float64(FALSE, MinInt64Mag, 0))

Num314 == Lit(<<"3", ".", "1", "4">>, "Number", <<"3", ".", "1", "4">>,
              Float64(FALSE, <<"3", "1", "4">>, -2))

NumMax == Lit(MaxInt64Mag, "Number", MaxInt64Mag, Int64(FALSE, MaxInt64Mag))

NumMin == Lit(<<"-">> \o MinInt64Mag, "Number", <<"-">> \o MinInt64Mag,
              Int64(TRUE, MinInt64Mag))

\* "1,2"
StrComma == Lit(<<QUOTE, "1", ",", "2", QUOTE>>, "String", <<"1", ",", "2">>,
                Str(<<"1", ",", "2">>))

\* the string of the one character U+00E9
StrAccent == Lit(<<QUOTE, "C3", "A9", QUOTE>>, "String", <<"C3", "A9">>,
                 Str(<<"C3", "A9">>))

\* +5: the lexer skips the sign, the decoder buffers it
NumPlus5 == Lit(<<"+", "5">>, "Number", <<"5">>, Int64(FALSE, <<"5">>))

\* [3.14,9223372036854775807,-9223372036854775808,+5]
ArrNums == ArrNode(<<Num314, NumMax, NumMin, NumPlus5>>)

StreamValues ==
    {Num12, NumNegExp, Num1e3, NumBig, LitTrue, StrComma, StrAccent, ArrMixed, ArrNums,
     ObjNested}

\* {"n": 1e3}
ExpDoc == ObjNode(<<Pair(<<"n">>, Num1e3)>>)

StreamDocs == UNION {ObjectsOf(StreamValues, n) : n \in 0..MaxPairs} \cup {ExpDoc}

\* the most bytes of a chunk
MaxChunk == 3

\* the first n bytes of text end at the end of a character
Boundary(text, n) == ~(n >= 1 /\ n < Len(text) /\ text[n] = "C3" /\ text[n + 1] = "A9")

\* the loop of the single ProcessString call goes on over the characters that
\* end within bytes from + 1 .. to of the text
WholeCall(from, to) ==
    IF doc.whole.err # "" THEN doc.whole
    ELSE IF Boundary(doc.text, to)
    THEN processEach(doc.whole.sp, Runes(SubSeq(doc.text, from + 1, to)))
    ELSE processEach(doc.whole.sp, Runes(SubSeq(doc.text, from + 1, to - 1)))

\* the last end of a character within the first n bytes of the text
LastBoundary(n) == IF Boundary(doc.text, n) THEN n ELSE n - 1

InitEquiv ==
    /\ \E tree \in StreamDocs :
          /\ doc = [tree |-> tree, text |-> Text(tree), cut |-> Len(Text(tree)),
                    off |-> 0, chunked |-> FALSE, split |-> FALSE,
                    whole |-> Outcome(NewStreamingParser(NilOutput), "")]
          /\ BatchRun(tree, Len(Text(tree)))
    /\ DecoderIdle

\* the caller passes the next character of the text to ProcessChar
FeedChar ==
    /\ phase = "done"
    /\ err = ""
    /\ doc.off < doc.cut
    /\ Boundary(doc.text, doc.off)
    /\ \E r \in {decodeRune(SubSeq(doc.text, doc.off + 1, doc.cut))} :
          /\ \E o \in {ProcessCharOutcome(sp, r.c)} :
                /\ sp' = o.sp
                /\ err' = o.err
          /\ fed' = Append(fed, r.c)
          /\ doc' = [doc EXCEPT !.off = @ + r.width,
                                !.whole = WholeCall(doc.off, doc.off + r.width)]
    /\ UNCHANGED batchVars

\* the caller passes the next k bytes of the text to ProcessString
FeedChunk(k) ==
    /\ phase = "done"
    /\ err = ""
    /\ doc.off + k <= doc.cut
    /\ \E chunk \in {SubSeq(doc.text, doc.off + 1, doc.off + k)} :
          /\ \E o \in {ProcessStringOutcome(sp, chunk)} :
                /\ sp' = o.sp
                /\ err' = o.err
          /\ fed' = fed \o consumed(sp, Runes(chunk))
    /\ doc' = [doc EXCEPT !.off = @ + k,
                          !.chunked = TRUE,
                          !.split = @ \/ ~Boundary(doc.text, doc.off + k),
                          !.whole = WholeCall(LastBoundary(doc.off), doc.off + k)]
    /\ UNCHANGED batchVars

NextEquiv ==
    \/ ScanToken
    \/ TokenizeEOF
    \/ Parse
    \/ parseValue
    \/ parseObject
    \/ parseObjectKey
    \/ parseObjectValue
    \/ parseArray
    \/ parseArrayElem
    \/ parseArrayValue
    \/ ParseReturn
    \/ FeedChar
    \/ \E k \in 1..MaxChunk : FeedChunk(k)

SpecEquiv == InitEquiv /\ [][NextEquiv]_vars

(***************************************************************************)
(* Claims about the two pipelines on one document, checked under SpecEquiv *)
(***************************************************************************)
\* the decoder was fed the whole text by ProcessChar alone
FedByChar == phase = "done" /\ ~doc.chunked /\ doc.off = doc.cut

\* C5: for every well-formed complete JSON object whose strings hold no
\* escape sequence, the decoder fed one character at a time by ProcessChar
\* returns no error, and its mapping equals the one ParsePartialJSONObject
\* returns for the whole text.
C5_PipelinesAgree ==
    /\ ~doc.chunked => err = ""
    /\ FedByChar => result.err = "" /\ GetCurrentOutput(sp) = result.val

\* the values on which the two pipelines part: a number with a lower-case
\* exponent, and a string with a number followed by a comma in it
RECURSIVE Holds(_, _)
Holds(node, lits) ==
    CASE node.n = "lit" -> node \in lits
      [] node.n = "arr" -> \E i \in 1..Len(node.elems) : Holds(node.elems[i], lits)
      [] node.n = "obj" -> \E i \in 1..Len(node.pairs) : Holds(node.pairs[i].val, lits)

\* C5 away from those values: the pipelines agree on every other document
C5_AgreeElsewhere ==
    ~Holds(doc.tree, {Num1e3, StrComma}) => C5_PipelinesAgree

\* the decoder that is fed and the one inside the single call stand alike
SameAsWholeCall ==
    /\ Outcome(sp, err) = doc.whole
    /\ GetCurrentOutput(sp) = GetCurrentOutput(doc.whole.sp)

\* C7: chunking invariance.  However the text handed over so far was split
\* into chunks (ProcessString on each in order, stopping at the first error),
\* or handed over character by character through ProcessChar, the output
\* mapping, the session state and the error are those of one ProcessString
\* call on that text.
C7_ChunkingInvariance ==
    phase = "done" /\ Boundary(doc.text, doc.off) => SameAsWholeCall

\* C7 for the splits that cut no character in two
C7_AtCharacterBoundaries ==
    phase = "done" /\ ~doc.split => SameAsWholeCall

\* C9: the characters e and E accumulate into a non-empty numeric buffer, so
\* that the text {"n": 1e3} fed character by character returns no error and
\* commits the float 1000 under the key n.
C9_ExponentAccumulates ==
    /\ \A c \in {"e", "E"} :
          ~sp.inString /\ sp.buffer # <<>> /\ AllDigits(sp.buffer) =>
              ProcessCharOutcome(sp, c) =
                  Outcome([sp EXCEPT !.buffer = Append(@, c), !.lastChar = c], "")
    /\ doc.tree = ExpDoc /\ ~doc.chunked =>
          /\ err = ""
          /\ doc.off = doc.cut =>
                GetCurrentOutput(sp) = Obj((<<"n">> :> Float64(FALSE, <<"1">>, 3)))

\* an optionally signed run of decimal digits within the int64 range
IsInt64Text(text) ==
    /\ text # <<>>
    /\ LET body == IF Head(text) \in {"+", "-"} THEN Tail(text) ELSE text
       IN  /\ body # <<>>
           /\ AllDigits(body)
           /\ ~MagGreater(StripLeadingZeros(body),
                          IF Head(text) = "-" THEN MinInt64Mag ELSE MaxInt64Mag)

\* the integer such a text denotes
IntOf(text) ==
    LET body == IF Head(text) \in {"+", "-"} THEN Tail(text) ELSE text
        mag  == StripLeadingZeros(body)
    IN  IF mag = <<>> THEN Int64(FALSE, <<"0">>) ELSE Int64(Head(text) = "-", mag)

\* what the policy commits for a numeric text: the integer when the text is
\* one, the float it parses as when it is not
PolicyValue(text) == IF IsInt64Text(text) THEN IntOf(text) ELSE ParseFloat(text).v

\* the token parseValue has just consumed is a number
NumberReturned ==
    /\ phase = "ret"
    /\ parser.current >= 1
    /\ parser.tokens[parser.current].Type = "Number"

BatchPolicy ==
    NumberReturned =>
        LET text == parser.tokens[parser.current].Value
        IN  /\ ret.err = ""
            /\ ret.val = PolicyValue(text)
            /\ ret.val.t = (IF IsInt64Text(text) THEN "int" ELSE "float")

\* a step of ProcessChar on a character that ends a number, outside a string,
\* the buffer holding a numeric text
NumberEnds ==
    /\ Len(fed') = Len(fed) + 1
    /\ fed'[Len(fed')] \in {",", "}", "]"}
    /\ ~sp.inString
    /\ IsInt64Text(sp.buffer) \/ ParseFloat(sp.buffer).ok

DecoderPolicy ==
    NumberEnds =>
        LET top   == sp.stack[Len(sp.stack)]
            value == PolicyValue(sp.buffer)
        IN  /\ value.t = (IF IsInt64Text(sp.buffer) THEN "int" ELSE "float")
            /\ CASE top.t \in {"mapptr", "mapref"} ->
                      sp.keys # <<>> /\ sp'.heap[top.a].m[sp.keys[Len(sp.keys)]] = value
                 [] top.t = "sliceptr" ->
                      sp'.heap[top.a].e = Append(sp.heap[top.a].e, value)

\* C10: integer-first numeric policy in both pipelines.  A numeric text is
\* committed as a 64-bit integer exactly when it is an optionally signed run
\* of decimal digits within the int64 range; any other numeric text that
\* parses as a float (decimal point, exponent, integer out of range) is
\* committed as a float.  In the batch parser the text is a number token's, in
\* the decoder it is the buffer's when a comma or a closing bracket ends it.
C10_IntegerFirst == [](BatchPolicy) /\ [][DecoderPolicy]_vars

\* {"a": 12, "b": 9223372036854775808} is through both pipelines: a is an
\* integer and b, one past the int64 range, a float in both mappings
C10_Witness ==
    /\ FedByChar
    /\ doc.tree = ObjNode(<<Pair(<<"a">>, Num12), Pair(<<"b">>, NumBig)>>)
    /\ result.val.m[<<"a">>] = Int64(FALSE, <<"1", "2">>)
    /\ GetCurrentOutput(sp).m[<<"a">>] = Int64(FALSE, <<"1", "2">>)
    /\ result.val.m[<<"b">>] = Float64(FALSE, MinInt64Mag, 0)
    /\ GetCurrentOutput(sp).m[<<"b">>] = Float64(FALSE, MinInt64Mag, 0)


(***************************************************************************)
(* The decoder's containers as the root sees them                          *)
(***************************************************************************)
\* value child stands under some key or at some index of value parent
Contains(parent, child) ==
    \/ parent.t = "obj" /\ \E k \in DOMAIN parent.m : parent.m[k] = child
    \/ parent.t = "arr" /\ \E i \in 1..Len(parent.e) : parent.e[i] = child

IsPrefix(a, b) == Len(a) <= Len(b) /\ SubSeq(b, 1, Len(a)) = a

\* the container at place i of the stack, read through
Open(s, i) == View(s.heap, s.stack[i])

\* the stack starts at the root and every container on it stands in the one
\* below it, with all it holds by now
Linked(s) ==
    /\ Len(s.stack) >= 1 /\ s.stack[1] = MapPtr(RootAddr)
    /\ \A i \in 2..Len(s.stack) : Contains(Open(s, i - 1), Open(s, i))

TopIsSequence(s) ==
    Len(s.stack) >= 2 /\ s.stack[Len(s.stack)].t \in {"sliceptr", "arr"}

\* a step in which the decoder takes one character
CharStep == sp' # sp /\ Len(fed') = Len(fed) + 1

\* C15: while a sequence nested in a mapping or in another sequence is the
\* open container, every character the decoder takes leaves all its earlier
\* elements in place and in order, and what the parent (and so the root
\* mapping) holds for it is the sequence with every element appended so far,
\* also when the character closes it
C15_ArrayRelink ==
    [][CharStep /\ Linked(sp) /\ TopIsSequence(sp)
         => LET n   == Len(sp.stack)
                old == Open(sp, n)
            IN  IF Len(sp'.stack) >= n
                THEN /\ Linked(sp')
                     /\ Open(sp', n).t = "arr" /\ IsPrefix(old.e, Open(sp', n).e)
                ELSE /\ Linked(sp')
                     /\ \E v \in {Open(sp', n - 1).m[k] : k \in
                                    IF Open(sp', n - 1).t = "obj"
                                    THEN DOMAIN Open(sp', n - 1).m ELSE {}}
                               \cup {Open(sp', n - 1).e[i] : i \in
                                    IF Open(sp', n - 1).t = "arr"
                                    THEN 1..Len(Open(sp', n - 1).e) ELSE {}} :
                           /\ v.t = "arr" /\ IsPrefix(old.e, v.e)
                           /\ Len(v.e) = Len(old.e) +
                                 (IF sp.buffer # <<>> /\ parseNumber(sp.buffer).err = ""
                                  THEN 1 ELSE 0)]_vars

\* the four numbers of {"a": [3.14, 9223372036854775807, ...]} have been
\* appended, the last of them by the bracket that closed the sequence, and the
\* root holds all four under a
C15_Witness ==
    /\ Len(sp.stack) = 1 /\ sp.lastChar = "]"
    /\ <<"a">> \in DOMAIN GetCurrentOutput(sp).m
    /\ GetCurrentOutput(sp).m[<<"a">>].t = "arr"
    /\ Len(GetCurrentOutput(sp).m[<<"a">>].e) = 4
    /\ GetCurrentOutput(sp).m[<<"a">>].e[4] = Int64(FALSE, <<"5">>)

(***************************************************************************)
(* The decoder in string mode, over every state a session reaches and      *)
(* every character a caller may pass next                                  *)
(***************************************************************************)
\* the buffer holds text that parseNumber accepts
NumberPending(s) == s.buffer # <<>> /\ parseNumber(s.buffer).err = ""

\* c is one of the characters that open ProcessChar's number finalisation
Finalizer(c) == c \in {",", "}", "]"}

\* the call ProcessChar(c) treats c as the character after a backslash, or as
\* the backslash itself, in the way C16 describes
EscapeStep(s, c) ==
    LET o == ProcessCharOutcome(s, c)
    IN  /\ s.isEscaping
           => /\ o.err = ""
              /\ o.sp.buffer = s.buffer \o Utf8(c)
              /\ ~o.sp.isEscaping /\ o.sp.inString
              /\ GetCurrentOutput(o.sp) = GetCurrentOutput(s)
        /\ ~s.isEscaping /\ c = BACKSLASH
           => /\ o.err = ""
              /\ o.sp.buffer = s.buffer
              /\ o.sp.isEscaping /\ o.sp.inString

\* C16 as stated: inside a string a backslash is not buffered and sets
\* escaping; the next character, whatever it is, is appended verbatim to the
\* buffer, clears escaping and does not close the string, so that the text
\* committed is the body with the leading backslash of each escape removed
C16_StringEscapes ==
    sp.inString => \A c \in AnyChar : EscapeStep(sp, c)

\* what holds of C16: the same, for every escaped character but , } ] after a
\* body that reads as a number so far
C16_EscapesButFinalizers ==
    sp.inString =>
        \A c \in AnyChar : ~(Finalizer(c) /\ NumberPending(sp)) => EscapeStep(sp, c)

\* the call ProcessChar(c) only appends c to the buffer
OnlyBuffered(s, c) ==
    LET o == ProcessCharOutcome(s, c)
    IN  /\ o.err = ""
        /\ o.sp = [s EXCEPT !.buffer = @ \o Utf8(c), !.isEscaping = FALSE, !.lastChar = c]
        /\ GetCurrentOutput(o.sp) = GetCurrentOutput(s)

\* the call ProcessChar of the closing quote commits all of the buffer, as
\* a key or as a value of the open container
WholeBodyCommitted(s) ==
    LET o == ProcessCharOutcome(s, QUOTE)
    IN  /\ o.err = "" /\ ~o.sp.inString /\ o.sp.buffer = <<>>
        /\ IF s.expectingKey
           THEN o.sp.keys = Append(s.keys, s.buffer)
           ELSE o.sp.heap = addValue(s, Str(s.buffer)).heap

\* C18 as stated: in string mode a character other than an unescaped quote
\* or backslash is only appended to the buffer, whatever the body holds so far
\* (the output mapping, every container and both stacks stay as they are),
\* and the closing quote commits the whole body
C18_StringIntegrity ==
    sp.inString =>
        /\ \A c \in AnyChar :
              sp.isEscaping \/ c \notin {QUOTE, BACKSLASH} => OnlyBuffered(sp, c)
        /\ ~sp.isEscaping => WholeBodyCommitted(sp)

\* what holds of C18: the same for every character but , } ] after a body
\* that reads as a number so far
C18_IntegrityButFinalizers ==
    sp.inString =>
        /\ \A c \in AnyChar :
              /\ sp.isEscaping \/ c \notin {QUOTE, BACKSLASH}
              /\ ~(Finalizer(c) /\ NumberPending(sp))
              => OnlyBuffered(sp, c)
        /\ ~sp.isEscaping => WholeBodyCommitted(sp)

(***************************************************************************)
(* The decoder's number finalisation, over every state reached while a     *)
(* document is fed and each of the characters , } ] as the next one        *)
(***************************************************************************)
\* the containers after value v has gone into the container on top of the
\* stack of s and into no other
CommittedOnTop(s, v) ==
    LET top == s.stack[Len(s.stack)]
    IN  IF top.t = "sliceptr"
        THEN [s.heap EXCEPT ![top.a] = SliceCell(Append(@.e, v))]
        ELSE IF top.t \in {"mapptr", "mapref"} /\ s.keys # <<>>
        THEN [s.heap EXCEPT ![top.a] = MapCell(MapSet(@.m, s.keys[Len(s.keys)], v))]
        ELSE s.heap

\* C19: when , } or ] arrives outside a string with a number in the buffer,
\* the number goes into the container that is on top of the stack before the
\* character is processed (under the last key for a mapping, as the last
\* element for a sequence) and into no other container, the buffer is emptied,
\* only then is the container closed by } or ], and a further , } or ]
\* commits nothing more
C19_FinalizationOrder ==
    ~sp.inString /\ NumberPending(sp) =>
        \A c \in {",", "}", "]"} :
            LET o == ProcessCharOutcome(sp, c)
            IN  /\ o.err = ""
                /\ o.sp.buffer = <<>>
                /\ o.sp.heap = CommittedOnTop(sp, parseNumber(sp.buffer).val)
                /\ o.sp.stack = IF c # "," /\ Len(sp.stack) > 1
                                THEN Pop(sp.stack) ELSE sp.stack
                /\ \A c2 \in {",", "}", "]"} :
                      ProcessCharOutcome(o.sp, c2).sp.heap = o.sp.heap

\* the 7 of {"a": {"x": {"y": 7}}} was followed by } and stands under y in
\* the mapping that this } closed
C19_Witness ==
    /\ Len(fed) >= 2 /\ fed[Len(fed)] = "}" /\ fed[Len(fed) - 1] = "7"
    /\ Len(sp.stack) = 2 /\ sp.buffer = <<>>
    /\ GetCurrentOutput(sp).m[<<"a">>] =
          Obj(MapSet(EmptyMap, <<"x">>, Obj(MapSet(EmptyMap, <<"y">>, Int64(FALSE, <<"7">>)))))

\* characters that ProcessChar's default case adds to the buffer
NumberChars == Digits \cup {"-", "+", ".", "E"}

\* the buffer holds text that parseNumber rejects
RejectPending(s) == ~s.inString /\ s.buffer # <<>> /\ parseNumber(s.buffer).err # ""

\* session s after the call ProcessChar(c), when the call returns no error
After(s, c) ==
    IF ProcessCharOutcome(s, c).err = "" THEN ProcessCharOutcome(s, c).sp ELSE s

\* C20 as stated: when , } or ] is processed outside a string while the
\* buffer holds text that parses as neither int64 nor float64, no value is
\* committed and the buffer is empty after the call.  Stated of the session
\* as it is and as it is after one more character of a number.
C20_RejectedBufferDropped ==
    \A c1 \in NumberChars : \A s \in {sp, After(sp, c1)} :
        RejectPending(s) =>
            \A c \in {",", "}", "]"} :
                LET o == ProcessCharOutcome(s, c)
                IN  /\ o.err = ""
                    /\ o.sp.heap = s.heap
                    /\ o.sp.buffer = <<>>

\* what holds of C20: no value is committed and the rejected text stays in
\* the buffer
C20_RejectedBufferKept ==
    \A c1 \in NumberChars : \A s \in {sp, After(sp, c1)} :
        RejectPending(s) =>
            \A c \in {",", "}", "]"} :
                LET o == ProcessCharOutcome(s, c)
                IN  /\ o.err = ""
                    /\ o.sp.heap = s.heap
                    /\ o.sp.buffer = s.buffer

(***************************************************************************)
(* The root mapping of a session                                           *)
(***************************************************************************)
\* session s is as Reset and NewStreamingParser leave one: bound to the root
\* map, which is empty, the stack holding the root alone, no key, an empty
\* buffer, expectingKey set and the other flags clear
Fresh(s) ==
    /\ s.output = MapPtr(RootAddr)
    /\ s.heap[s.output.a] = MapCell(EmptyMap)
    /\ s.stack = <<s.output>>
    /\ s.keys = <<>> /\ s.buffer = <<>>
    /\ s.expectingKey /\ ~s.expectColon /\ ~s.inString /\ ~s.isEscaping

\* C17: NewStreamingParser on a caller's mapping empties it and binds the
\* session to it; after any sequence of ProcessChar, ProcessString and Reset
\* calls the output is still that mapping (the session's output pointer and
\* the bottom of its stack are the root, which is a map), and a Reset in any
\* state leaves it empty, with the stack equal to [root], no key, an empty
\* buffer, expectingKey true and every other flag false
C17_RootIdentity ==
    /\ \A output \in CallerOutputs : Fresh(NewStreamingParser(output))
    /\ sp.output = MapPtr(RootAddr)
    /\ sp.heap[sp.output.a].k = "map"
    /\ Len(sp.stack) >= 1 /\ sp.stack[1] = sp.output
    /\ GetCurrentOutput(sp).t = "obj"
    /\ Fresh(Reset(sp))
    /\ doc.prior # "none" /\ fed = <<>> => Fresh(sp)

\* Reset was called on a session in the middle of a document and has left it
\* bound to the emptied root
C17_Witness ==
    /\ doc.prior = "open" /\ doc.calls = 0 /\ fed = <<>>
    /\ Fresh(sp) /\ GetCurrentOutput(sp) = Obj(EmptyMap)

(***************************************************************************)
(* The container stack and the key stack of a session                      *)
(***************************************************************************)
\* C21: after any sequence of calls, on any characters, the container stack
\* is non-empty and its bottom is the root mapping; } and ] outside a string
\* return no error and pop one frame when the stack holds more than the root,
\* and none when it holds the root alone
C21_StackBottomIsRoot ==
    /\ Len(sp.stack) >= 1
    /\ sp.stack[1] = sp.output /\ sp.stack[1].t = "mapptr"
    /\ ~sp.inString =>
          \A c \in {"}", "]"} :
              LET o == ProcessCharOutcome(sp, c)
              IN  /\ o.err = ""
                  /\ Len(o.sp.stack) = IF Len(sp.stack) > 1
                                       THEN Len(sp.stack) - 1 ELSE 1
                  /\ o.sp.stack = SubSeq(sp.stack, 1, Len(o.sp.stack))

\* a } with no { before it, then a further } or ]: the stack still holds the
\* root alone
C21_Witness ==
    /\ Len(fed) >= 2 /\ fed[1] = "}" /\ fed[Len(fed)] \in {"}", "]"}
    /\ err = ""
    /\ sp.stack = <<sp.output>>

\* the session has taken a { outside a string since it was created or Reset
BraceTaken ==
    \E i \in 1..Len(fed) :
        /\ fed[i] = "{"
        /\ ~Replay(NewStreamingParser(NilOutput), SubSeq(fed, 1, i - 1)).inString

\* the call ProcessChar("{") changes nothing but expectingKey
Absorbed(s) ==
    ProcessCharOutcome(s, "{") =
        Outcome([s EXCEPT !.expectingKey = TRUE, !.lastChar = "{"], "")

\* the call ProcessChar("{") makes a new empty mapping, commits it to the
\* container on top of the stack and pushes it
Nested(s) ==
    LET o == ProcessCharOutcome(s, "{")
        a == Len(s.heap) + 1
    IN  /\ o.err = ""
        /\ o.sp.stack = Append(s.stack, MapRef(a))
        /\ o.sp.heap =
              CommittedOnTop([s EXCEPT !.heap = Append(@, MapCell(EmptyMap))], MapRef(a))
        /\ o.sp.expectingKey

\* C22 as stated: in a session only the very first { outside a string is
\* absorbed as the root and changes nothing but expectingKey; every later {
\* outside a string creates a new empty mapping, commits it into the current
\* container and pushes it
C22_FirstBraceAbsorbed ==
    ~sp.inString => IF BraceTaken THEN Nested(sp) ELSE Absorbed(sp)

\* what holds of C22: a { outside a string is absorbed exactly when the
\* stack holds the root alone and the key stack is empty, whichever { of the
\* session it is
C22_AbsorbedAtBareRoot ==
    ~sp.inString =>
        IF Len(sp.stack) = 1 /\ sp.keys = <<>> THEN Absorbed(sp) ELSE Nested(sp)

\* the session as it was before it was given fed[i]
Before(i) == Replay(NewStreamingParser(NilOutput), SubSeq(fed, 1, i - 1))

\* fed[i] is white space, or was refused with an error and left no trace
Skipped(i) == fed[i] \in Whitespace \/ ProcessCharOutcome(Before(i), fed[i]).err # ""

\* the last character the session took that is no white space
LastInput == CHOOSE i \in 0..Len(fed) :
                 /\ i > 0 => ~Skipped(i)
                 /\ \A j \in (i + 1)..Len(fed) : Skipped(j)

\* that character was the closing quote of a key string
KeyJustClosed ==
    /\ LastInput > 0 /\ fed[LastInput] = QUOTE
    /\ \E before \in {Before(LastInput)} :
          before.inString /\ ~before.isEscaping /\ before.expectingKey

\* the call ProcessChar(":") returns no error and only clears expectColon
ColonAccepted(s) ==
    ProcessCharOutcome(s, ":") =
        Outcome([s EXCEPT !.expectColon = FALSE, !.lastChar = ":"], "")

\* C23 as stated: a : outside a string is accepted only when the last input
\* before it that is no white space was the closing quote of a key string,
\* and then only clears expectColon; in every other state it returns an error
C23_ColonAfterKeyOnly ==
    ~sp.inString =>
        IF KeyJustClosed THEN ColonAccepted(sp)
        ELSE ProcessCharOutcome(sp, ":").err # ""

\* what holds of C23: a : outside a string is accepted exactly when
\* expectColon is set, and then only clears it
C23_ColonWhenExpected ==
    ~sp.inString =>
        IF sp.expectColon THEN ColonAccepted(sp)
        ELSE ProcessCharOutcome(sp, ":").err # ""

(***************************************************************************)
(* The literals true, false and null in the decoder                        *)
(***************************************************************************)
\* buffer, letter: the prefix each letter extends
LiteralSteps ==
    {<<"", "t">>, <<"t", "r">>, <<"tr", "u">>, <<"tru", "e">>,
     <<"", "f">>, <<"f", "a">>, <<"fa", "l">>, <<"fal", "s">>, <<"fals", "e">>,
     <<"", "n">>, <<"n", "u">>, <<"nu", "l">>, <<"nul", "l">>}

\* the bytes of a word
Bytes(word) ==
    CASE word = ""     -> <<>>
      [] word = "t"    -> <<"t">>
      [] word = "tr"   -> <<"t", "r">>
      [] word = "tru"  -> <<"t", "r", "u">>
      [] word = "f"    -> <<"f">>
      [] word = "fa"   -> <<"f", "a">>
      [] word = "fal"  -> <<"f", "a", "l">>
      [] word = "fals" -> <<"f", "a", "l", "s">>
      [] word = "n"    -> <<"n">>
      [] word = "nu"   -> <<"n", "u">>
      [] word = "nul"  -> <<"n", "u", "l">>

\* the value of the literal that the letter completes, if it completes one
Completed(buffer, c) ==
    CASE buffer = Bytes("tru") /\ c = "e"  -> <<Bool(TRUE)>>
      [] buffer = Bytes("fals") /\ c = "e" -> <<Bool(FALSE)>>
      [] buffer = Bytes("nul") /\ c = "l"  -> <<Null>>
      [] OTHER -> <<>>

\* C24: outside a string each of t r u e f a l s n is accepted only when the
\* buffer is exactly the prefix it extends, and otherwise returns an error;
\* a letter that completes true, false or null commits that value to the
\* current container and leaves the buffer empty, and any other accepted
\* letter is only added to the buffer
C24_LiteralPrefixes ==
    ~sp.inString =>
        \A c \in {"t", "r", "u", "e", "f", "a", "l", "s", "n"} :
            LET o == ProcessCharOutcome(sp, c)
            IN  IF \E st \in LiteralSteps : Bytes(st[1]) = sp.buffer /\ st[2] = c
                THEN IF Completed(sp.buffer, c) # <<>>
                     THEN /\ o.err = ""
                          /\ o.sp = [sp EXCEPT
                                        !.heap = CommittedOnTop(sp, Completed(sp.buffer, c)[1]),
                                        !.buffer = <<>>, !.lastChar = c]
                     ELSE o = Outcome([sp EXCEPT !.buffer = @ \o <<c>>, !.lastChar = c], "")
                ELSE o.err # "" /\ o.sp = sp

\* the e of false has committed false under the key k of the mapping in
\* [12, [null], {"k": false}]
C24_Witness ==
    /\ Len(fed) >= 5 /\ SubSeq(fed, Len(fed) - 4, Len(fed)) = <<"f", "a", "l", "s", "e">>
    /\ err = "" /\ sp.buffer = <<>> /\ ~sp.inString
    /\ sp.stack[Len(sp.stack)].t = "mapref"
    /\ Open(sp, Len(sp.stack)) = Obj(MapSet(EmptyMap, <<"k">>, Bool(FALSE)))

\* C25: after a , is processed outside a string, expectingKey is true exactly
\* when the container on top of the stack is a mapping (the root or a nested
\* one) and false when it is a sequence; but for the number finalisation
\* that comes before it, the comma changes neither the stacks nor the
\* containers, nor any other field
C25_CommaRule ==
    ~sp.inString =>
        LET o   == ProcessCharOutcome(sp, ",")
            top == sp.stack[Len(sp.stack)]
        IN  /\ o.err = ""
            /\ top.t \in {"mapptr", "mapref", "sliceptr"}
            /\ o.sp.expectingKey <=> top.t \in {"mapptr", "mapref"}
            /\ o.sp = [sp EXCEPT
                          !.heap = IF NumberPending(sp)
                                   THEN CommittedOnTop(sp, parseNumber(sp.buffer).val)
                                   ELSE @,
                          !.buffer = IF NumberPending(sp) THEN <<>> ELSE @,
                          !.expectingKey = top.t # "sliceptr",
                          !.lastChar = ","]

\* a comma after the first element of a sequence: the element is committed
\* and no key is expected
C25_Witness ==
    /\ fed # <<>> /\ fed[Len(fed)] = "," /\ err = "" /\ ~sp.inString
    /\ sp.stack[Len(sp.stack)].t = "sliceptr"
    /\ Len(Open(sp, Len(sp.stack)).e) = 1
    /\ ~sp.expectingKey

(***************************************************************************)
(* The batch pipeline: tokens, cursor, progress                            *)
(***************************************************************************)
\* C26: for every input the token list that Tokenize returns is non-empty
\* and ends with exactly one end-of-input token (none is among the tokens
\* while Tokenize runs), and during Parse the cursor always indexes an
\* existing token and never moves past the end-of-input token, so that peek
\* is never out of range
C26_CursorInRange ==
    IF phase = "lex"
    THEN \A i \in 1..Len(lexer.tokens) : lexer.tokens[i].Type # "EOF"
    ELSE /\ parser.tokens = lexer.tokens
         /\ Len(parser.tokens) >= 1
         /\ parser.tokens[Len(parser.tokens)].Type = "EOF"
         /\ \A i \in 1..(Len(parser.tokens) - 1) : parser.tokens[i].Type # "EOF"
         /\ parser.current \in 0..(Len(parser.tokens) - 1)

\* a text with a part that the lexer skips or cuts short has been parsed to
\* its end: the cursor stands on the end-of-input token
C26_Witness ==
    /\ phase = "done" /\ doc.tok \in LexerOddities
    /\ Len(parser.tokens) >= 3
    /\ parser.current = Len(parser.tokens) - 1
    /\ peek(parser.tokens, parser.current) = EOFToken

\* the batch pipeline on the inputs of SpecAny, every call eventually made
SpecAnyFair == InitAny /\ [][NextBatch]_vars /\ WF_vars(NextBatch)

\* one scanToken call moves pos forward and stays inside the input
ScanProgress ==
    phase = "lex" /\ lexer' # lexer /\ phase' = "lex"
    => lexer.pos < lexer'.pos /\ lexer'.pos <= Len(lexer.input)

\* inside a loop of parseObject or parseArray: a pass returns or calls
\* parseValue, that call consumes a token, and after it the loop returns or
\* consumes the comma
ParseProgress ==
    phase \in {"value", "loop", "ret"}
    => /\ parser.current <= parser'.current
       /\ parser'.current <= Len(parser.tokens) - 1
       /\ phase = "loop"
          => \/ phase' = "ret" /\ frames' = Pop(frames)
             \/ phase' = "value" /\ Len(frames') = Len(frames)
       /\ phase = "value" /\ frames # <<>>
          => parser.current < parser'.current
       /\ phase = "ret" /\ frames # <<>>
          => \/ phase' = "ret" /\ frames' = Pop(frames)
             \/ /\ phase' = "loop" /\ Len(frames') = Len(frames)
                /\ parser.current < parser'.current

\* C27: for every finite input the batch pipeline terminates: every scanToken
\* call strictly increases pos (unknown characters, dropped identifiers, a
\* lone minus sign and unterminated strings included), every pass of the
\* parseObject and parseArray loops consumes at least one token or returns,
\* and so Tokenize and Parse are eventually over
C27_Terminates ==
    /\ [][ScanProgress]_vars
    /\ [][ParseProgress]_vars
    /\ <>(phase = "done")

\* an input made of lexer oddities only has been scanned to its end and
\* Parse has returned
C27_Witness ==
    /\ phase = "done"
    /\ doc.ctx = <<>> /\ doc.tok \in LexerOddities /\ doc.rest = <<>>
    /\ lexer.pos = Len(lexer.input)
    /\ Len(lexer.input) >= 1


(***************************************************************************)
(* The key stack                                                           *)
(***************************************************************************)
\* the open mapping frames of a session: the root and the nested mappings
MappingFrames(s) ==
    Cardinality({i \in 1..Len(s.stack) : s.stack[i].t \in {"mapptr", "mapref"}})

\* the last character of history h was the closing quote of a string read
\* while a key was expected
KeyStringClosed(h) ==
    /\ Len(fed) > 0 /\ fed[Len(fed)] = QUOTE
    /\ h[Len(fed)].inString /\ ~h[Len(fed)].isEscaping /\ h[Len(fed)].expectingKey

\* the last character of history h was a } that closed a nested mapping frame
MappingClosed(h) ==
    /\ Len(fed) > 0 /\ fed[Len(fed)] = "}"
    /\ ~h[Len(fed)].inString
    /\ Len(h[Len(fed)].stack) > 1
    /\ h[Len(fed)].stack[Len(h[Len(fed)].stack)].t = "mapref"

\* h extended by the sessions after each of chars
RECURSIVE Sessions(_, _)
Sessions(h, chars) ==
    IF chars = <<>> THEN h
    ELSE CHOOSE r \in
            { Sessions(g, rest) :
                g \in {Append(h, ProcessCharOutcome(h[Len(h)], Head(chars)).sp)},
                rest \in {Tail(chars)} } : TRUE

\* the sessions after 0, 1, ... characters of those taken so far (at index
\* 1, 2, ...)
History == Sessions(<<NewStreamingParser(NilOutput)>>, fed)

\* in history h, whose last character closed a frame: the session in which
\* the { that opened this frame arrived
AtOpen(h) ==
    LET n == Len(h) - 1
        j == CHOOSE j \in 1..(n - 1) :
                /\ Len(h[j].stack) = Len(h[n].stack) - 1
                /\ \A k \in (j + 1)..n : Len(h[k].stack) >= Len(h[n].stack)
    IN  h[j]

\* a key is pushed exactly when a key string closes
PushAtKeyClose(h) ==
    Len(fed) > 0
    => IF KeyStringClosed(h)
       THEN sp.keys = Append(h[Len(fed)].keys, h[Len(fed)].buffer)
       ELSE Len(sp.keys) <= Len(h[Len(fed)].keys)

\* after } has closed a mapping frame the key stack is what it was when the
\* frame was opened
CloseRestoresKeys(h) == MappingClosed(h) => sp.keys = AtOpen(h).keys

\* the key stack is not longer than the number of open mapping frames
KeysWithinFrames == Len(sp.keys) <= MappingFrames(sp)

\* C28: a key is pushed exactly when a key string closes; when } closes a
\* mapping frame the key stack is again what it was when the frame was
\* opened; the key stack is never longer than the number of open mapping
\* frames
C28_KeyStackDiscipline ==
    err = ""
    => \E h \in {History} :
          /\ h[Len(h)] = sp
          /\ PushAtKeyClose(h)
          /\ CloseRestoresKeys(h)
          /\ KeysWithinFrames

(***************************************************************************)
(* The kinds of the frames on the container stack                          *)
(***************************************************************************)
\* frame i of session s is the root handle (at the bottom only), a nested
\* mapping or a handle to a sequence, and refers to a cell of its kind
FrameKind(s, i) ==
    IF i = 1
    THEN s.stack[1] = MapPtr(RootAddr) /\ s.heap[RootAddr].k = "map"
    ELSE /\ s.stack[i].t \in {"mapref", "sliceptr"}
         /\ s.stack[i].a \in 2..Len(s.heap)
         /\ s.heap[s.stack[i].a].k =
               IF s.stack[i].t = "mapref" THEN "map" ELSE "slice"

\* from session s to session t no frame was replaced, and every open
\* sequence of s was at most extended in place
FramesKept(s, t) ==
    \A i \in 1..Len(s.stack) :
        i <= Len(t.stack)
        => /\ t.stack[i] = s.stack[i]
           /\ s.stack[i].t = "sliceptr"
              => /\ t.heap[s.stack[i].a].k = "slice"
                 /\ IsPrefix(s.heap[s.stack[i].a].e, t.heap[s.stack[i].a].e)

\* C29: in every reachable decoder state each frame of the container stack
\* is the root mapping handle, a nested mapping or a handle to a sequence,
\* never a bare sequence value; so whatever character comes next, addValue
\* does not take its re-link branch: no frame is replaced by a new sequence
\* and an append extends the sequence in place, under the same handle
C29_FrameKinds ==
    /\ \A i \in 1..Len(sp.stack) : FrameKind(sp, i)
    /\ \A c \in Alphabet :
          \E o \in {ProcessCharOutcome(sp, c)} :
             /\ \A i \in 1..Len(o.sp.stack) : FrameKind(o.sp, i)
             /\ FramesKept(sp, o.sp)

\* a sequence nested in another container is open and has had a value
\* appended to it
C29_Witness ==
    /\ err = ""
    /\ Len(sp.stack) >= 2
    /\ sp.stack[Len(sp.stack)].t = "sliceptr"
    /\ Len(sp.heap[sp.stack[Len(sp.stack)].a].e) >= 1
    /\ sp.lastChar = ","


====
